---- MODULE Spec2Model ----
\* A model of the docking core of TiWidget (src/widgetsBase): the layout tree
\* of dock_layout.h, the window manager of window_manager.cpp and the
\* drag/dock orchestrator of dock_framework.cpp.
\*
\* C++ float is binary32.  A float is modelled as <<m, e>>, standing for
\* m * 2^e with 2^23 <= |m| < 2^24, or as <<0, 0>>; every operation rounds
\* to nearest, ties to even, as the hardware does.  Values that are needed
\* more than once are passed on as operator arguments.
EXTENDS Integers, Sequences, FiniteSets, TLC

\* ------------------------------------------------------------------------
\* binary32 arithmetic
\* ------------------------------------------------------------------------
Abs(n) == IF n < 0 THEN -n ELSE n
Sgn(n) == IF n < 0 THEN -1 ELSE 1

RECURSIVE BitLen(_)
BitLen(n) ==
    IF n < 2 THEN 1
    ELSE IF n >= 256 THEN 8 + BitLen(n \div 256)
    ELSE 1 + BitLen(n \div 2)

\* sticky bit: an inexact truncated magnitude is made odd
Jam(q, sticky) == IF sticky /\ q % 2 = 0 THEN q + 1 ELSE q

FZero == <<0, 0>>

\* q with remainder r, where `half` is the remainder of a tie
RoundEven(sign, q, r, half, e) ==
    IF r > half \/ (r = half /\ q % 2 = 1)
    THEN IF q + 1 = 2^24 THEN <<sign * 2^23, e + 1>> ELSE <<sign * (q + 1), e>>
    ELSE <<sign * q, e>>

RoundBits(sign, mag, e, len) ==
    IF len <= 24 THEN <<sign * mag * 2^(24 - len), e - (24 - len)>>
    ELSE RoundEven(sign, mag \div 2^(len - 24), mag % 2^(len - 24), 2^(len - 25),
                   e + (len - 24))

\* round sign * mag * 2^e to 24 significant bits, nearest-even
FRound(sign, mag, e) ==
    IF mag = 0 THEN FZero ELSE RoundBits(sign, mag, e, BitLen(mag))

\* an integer literal such as 120.0f
F(n) == FRound(Sgn(n), Abs(n), 0)

FNeg(a) == <<-a[1], a[2]>>

AddSigned(sum, e) == FRound(Sgn(sum), Abs(sum), e)

\* hi keeps k guard bits, lo is shifted down to them
AddAligned(hi, lo, d, k) ==
    AddSigned(hi[1] * 2^k
              + Sgn(lo[1]) * Jam(Abs(lo[1]) \div 2^(d - k), Abs(lo[1]) % 2^(d - k) # 0),
              hi[2] - k)

AddOrdered(hi, lo, d) ==
    IF d >= 27 THEN hi ELSE AddAligned(hi, lo, d, IF d < 6 THEN d ELSE 6)

FAdd(a, b) ==
    IF a[1] = 0 THEN b
    ELSE IF b[1] = 0 THEN a
    ELSE IF a[2] >= b[2] THEN AddOrdered(a, b, a[2] - b[2])
    ELSE AddOrdered(b, a, b[2] - a[2])

FSub(a, b) == FAdd(a, FNeg(b))

\* the 48-bit product from 12-bit limbs, cut to 30 bits with a sticky bit
MulLow(sign, high, low, e) ==
    FRound(sign,
           Jam((high + low \div 2^24) * 2^6 + (low % 2^24) \div 2^18,
               (low % 2^24) % 2^18 # 0),
           e)

MulParts(sign, hh, mid, ll, e) ==
    MulLow(sign, hh + mid \div 2^12, (mid % 2^12) * 2^12 + ll, e)

MulMag(sign, ma, mb, e) ==
    MulParts(sign, (ma \div 2^12) * (mb \div 2^12),
             (ma \div 2^12) * (mb % 2^12) + (ma % 2^12) * (mb \div 2^12),
             (ma % 2^12) * (mb % 2^12), e)

FMul(a, b) ==
    IF a[1] = 0 \/ b[1] = 0 THEN FZero
    ELSE MulMag(Sgn(a[1]) * Sgn(b[1]), Abs(a[1]), Abs(b[1]), a[2] + b[2] + 18)

RECURSIVE DivDigits(_, _, _, _)
DivDigits(q, r, mb, n) ==
    IF n = 0 THEN Jam(q, r # 0)
    ELSE DivDigits(q * 2^7 + (r * 2^7) \div mb, (r * 2^7) % mb, mb, n - 1)

DivMag(sign, ma, mb, e) == FRound(sign, DivDigits(ma \div mb, ma % mb, mb, 4), e)

FDiv(a, b) ==
    IF a[1] = 0 THEN FZero
    ELSE DivMag(Sgn(a[1]) * Sgn(b[1]), Abs(a[1]), Abs(b[1]), a[2] - b[2] - 28)

\* a decimal literal n/d such as 0.28f: the binary32 nearest to it
FQ(n, d) == FDiv(F(n), F(d))

FLt(a, b) ==
    IF a[1] = 0 THEN b[1] > 0
    ELSE IF b[1] = 0 THEN a[1] < 0
    ELSE IF (a[1] < 0) # (b[1] < 0) THEN a[1] < 0
    ELSE IF a[1] > 0 THEN a[2] < b[2] \/ (a[2] = b[2] /\ a[1] < b[1])
    ELSE a[2] > b[2] \/ (a[2] = b[2] /\ a[1] < b[1])
FLe(a, b) == ~FLt(b, a)
FGt(a, b) == FLt(b, a)
FGe(a, b) == ~FLt(a, b)
FMax(a, b) == IF FLt(a, b) THEN b ELSE a
FMin(a, b) == IF FLt(b, a) THEN b ELSE a
FClamp(v, lo, hi) == IF FLt(v, lo) THEN lo ELSE IF FLt(hi, v) THEN hi ELSE v
FAbs(a) == <<Abs(a[1]), a[2]>>

\* ------------------------------------------------------------------------
\* core_types.h
\* ------------------------------------------------------------------------
DFPoint(x, y) == [x |-> x, y |-> y]
DFRect(x, y, w, h) == [x |-> x, y |-> y, width |-> w, height |-> h]
DFSize(w, h) == [width |-> w, height |-> h]
ZeroRect == DFRect(FZero, FZero, FZero, FZero)
ZeroPoint == DFPoint(FZero, FZero)

contains(r, p) ==
    /\ FGe(p.x, r.x)
    /\ FLe(p.x, FAdd(r.x, r.width))
    /\ FGe(p.y, r.y)
    /\ FLe(p.y, FAdd(r.y, r.height))

\* ------------------------------------------------------------------------
\* DockLayout::Node (dock_layout.h).  A null unique_ptr<Node> is Null; a
\* null DockWidget* is NoWidget.  A Node* is the node's path from the root:
\* selector 1 is `first`, 2 is `second`, 2 + i is children[i].
\* ------------------------------------------------------------------------
Null == [type |-> "Null"]
NoWidget == "nullptr"

\* addr is the address of the Node object: what a Node* holds; unique_ptr moves
\* keep it, 0 where no pointer to the node is ever taken
Node ==
    [type |-> "Widget", bounds |-> ZeroRect, first |-> Null, second |-> Null,
     children |-> <<>>, widget |-> NoWidget, ratio |-> FQ(1, 2),
     vertical |-> TRUE, splitSizing |-> "Ratio", fixedSize |-> F(220),
     minFirstSize |-> F(120), minSecondSize |-> F(120),
     calculatedMinWidth |-> F(120), calculatedMinHeight |-> F(120),
     activeTab |-> 0, tabBarHeight |-> F(26), addr |-> 0]

NonNull(children) == SelectSeq(children, LAMBDA c : c # Null)

IClamp(v, lo, hi) == IF v < lo THEN lo ELSE IF hi < v THEN hi ELSE v

\* a Tab case that keeps a child Tab as one child instead of taking its children
RECURSIVE FlattenedNot(_, _)
FlattenedNot(children, i) ==
    IF i > Len(children) THEN <<>>
    ELSE (IF children[i] # Null THEN <<children[i]>> ELSE <<>>)
         \o FlattenedNot(children, i + 1)

\* the Tab case's `flattened` vector of DockLayout::normalizeNode
RECURSIVE Flattened(_, _)
Flattened(children, i) ==
    IF i > Len(children) THEN <<>>
    ELSE (IF children[i] # Null /\ children[i].type = "Tab"
             /\ children[i].children # <<>>
          THEN NonNull(children[i].children)
          ELSE IF children[i] # Null THEN <<children[i]>> ELSE <<>>)
         \o Flattened(children, i + 1)

RECURSIVE normalizeNode(_)
RECURSIVE normalizeEach(_, _)
normalizeEach(children, i) ==
    IF i > Len(children) THEN <<>>
    ELSE <<normalizeNode(children[i])>> \o normalizeEach(children, i + 1)

\* normalizeNode's Tab case once `flattened` is known
normalizeTab(node, flattened) ==
    IF flattened = <<>> THEN Null
    ELSE IF Len(flattened) = 1 THEN normalizeNode(flattened[1])
    ELSE [node EXCEPT !.children = flattened,
                      !.activeTab = IClamp(node.activeTab, 0, Len(flattened) - 1)]

\* normalizeNode's switch, entered with the children already normalized
normalizeSwitch(node) ==
    CASE node.type = "Widget" -> IF node.widget = NoWidget THEN Null ELSE node
      [] node.type = "Tab" -> normalizeTab(node, Flattened(node.children, 1))
      [] node.type = "Split" ->
            IF node.first = Null /\ node.second = Null THEN Null
            ELSE IF node.first = Null THEN normalizeNode(node.second)
            ELSE IF node.second = Null THEN normalizeNode(node.first)
            ELSE node

normalizeNode(node) ==
    IF node = Null THEN Null
    ELSE normalizeSwitch([node EXCEPT
                             !.first = normalizeNode(node.first),
                             !.second = normalizeNode(node.second),
                             !.children = NonNull(normalizeEach(node.children, 1))])

\* the file-local NormalizeNode of dock_framework.cpp: one level only
RECURSIVE NormalizeNode(_)
NormalizeTab(node, kept) ==
    IF kept = <<>> THEN Null
    ELSE IF Len(kept) = 1 THEN NormalizeNode(kept[1])
    ELSE [node EXCEPT !.children = kept,
                      !.activeTab = IClamp(node.activeTab, 0, Len(kept) - 1)]

NormalizeNode(node) ==
    IF node = Null THEN Null
    ELSE IF node.type = "Split" THEN
        IF node.first = Null /\ node.second = Null THEN Null
        ELSE IF node.first = Null THEN NormalizeNode(node.second)
        ELSE IF node.second = Null THEN NormalizeNode(node.first)
        ELSE node
    ELSE IF node.type = "Tab" THEN NormalizeTab(node, NonNull(node.children))
    ELSE node

NotFound == [found |-> FALSE, node |-> Null, extracted |-> Null]

\* RemoveWidgetNode(node, target, extracted): the result holds the return
\* value, what `node` owns afterwards and what `extracted` owns afterwards
RECURSIVE RemoveWidgetNode(_, _)
RECURSIVE RemoveFromChildren(_, _, _)
RemovedFromChild(node, target, i, r) ==
    IF r.found
    THEN [found |-> TRUE,
          node |-> NormalizeNode([node EXCEPT !.children[i] = NormalizeNode(r.node)]),
          extracted |-> r.extracted]
    ELSE RemoveFromChildren(node, target, i + 1)

RemoveFromChildren(node, target, i) ==
    IF i > Len(node.children) THEN [NotFound EXCEPT !.node = node]
    ELSE RemovedFromChild(node, target, i, RemoveWidgetNode(node.children[i], target))

RemovedFromSecond(node, target, r) ==
    IF r.found
    THEN [found |-> TRUE,
          node |-> NormalizeNode([node EXCEPT !.second = NormalizeNode(r.node)]),
          extracted |-> r.extracted]
    ELSE RemoveFromChildren(node, target, 1)

RemovedFromFirst(node, target, r) ==
    IF r.found
    THEN [found |-> TRUE,
          node |-> NormalizeNode([node EXCEPT !.first = NormalizeNode(r.node)]),
          extracted |-> r.extracted]
    ELSE RemovedFromSecond(node, target, RemoveWidgetNode(node.second, target))

\* a RemoveWidgetNode that takes the first Widget leaf, whatever its panel
RemoveWidgetNodeAny(node, target) ==
    IF node = Null \/ target = NoWidget THEN [NotFound EXCEPT !.node = node]
    ELSE IF node.type = "Widget"
    THEN [found |-> TRUE, node |-> Null, extracted |-> node]
    ELSE RemovedFromFirst(node, target, RemoveWidgetNode(node.first, target))

RemoveWidgetNode(node, target) ==
    IF node = Null \/ target = NoWidget THEN [NotFound EXCEPT !.node = node]
    ELSE IF node.type = "Widget" /\ node.widget = target
    THEN [found |-> TRUE, node |-> Null, extracted |-> node]
    ELSE RemovedFromFirst(node, target, RemoveWidgetNode(node.first, target))

\* the node a path addresses (Null when the path leaves the tree)
RECURSIVE NodeAt(_, _)
NodeAt(node, path) ==
    IF node = Null THEN Null
    ELSE IF path = <<>> THEN node
    ELSE IF Head(path) = 1 THEN NodeAt(node.first, Tail(path))
    ELSE IF Head(path) = 2 THEN NodeAt(node.second, Tail(path))
    ELSE IF Head(path) - 2 <= Len(node.children)
    THEN NodeAt(node.children[Head(path) - 2], Tail(path))
    ELSE Null

\* *handle = replacement, for the handle a path addresses
RECURSIVE AssignAt(_, _, _)
AssignAt(node, path, replacement) ==
    IF path = <<>> THEN replacement
    ELSE IF Head(path) = 1
    THEN [node EXCEPT !.first = AssignAt(node.first, Tail(path), replacement)]
    ELSE IF Head(path) = 2
    THEN [node EXCEPT !.second = AssignAt(node.second, Tail(path), replacement)]
    ELSE [node EXCEPT !.children[Head(path) - 2] =
                          AssignAt(node.children[Head(path) - 2], Tail(path), replacement)]

NoHandle == <<0>>

\* FindNodeHandle(root, target): unique_ptr owners are unique, so the scan
\* finds the handle exactly when target is a node of the tree
FindNodeHandle(root, target) ==
    IF root = Null \/ target = NoHandle THEN NoHandle
    ELSE IF NodeAt(root, target) # Null THEN target ELSE NoHandle

\* FindParentTabHandle(root, target): the Tab node holding target in children
FindParentTabHandle(root, target) ==
    IF root = Null \/ target = NoHandle \/ target = <<>> THEN NoHandle
    ELSE IF /\ NodeAt(root, target) # Null
            /\ NodeAt(root, SubSeq(target, 1, Len(target) - 1)).type = "Tab"
            /\ target[Len(target)] > 2
    THEN SubSeq(target, 1, Len(target) - 1)
    ELSE NoHandle

\* ------------------------------------------------------------------------
\* Panels (DockWidget).  minimumSize() is the larger of the panel's own
\* minimum and its content's; each panel reports a fixed value.
\* ------------------------------------------------------------------------
Panels == {"A", "B", "C", "D"}

minimumSize(w) ==
    CASE w = "A" -> DFSize(F(120), F(100))
      [] w = "B" -> DFSize(FZero, FZero)
      [] w = "C" -> DFSize(F(200), F(150))
      [] w = "D" -> DFSize(F(100), F(100))
      [] w = "E" -> DFSize(F(60), F(60))
      [] OTHER -> DFSize(FZero, FZero)

\* ------------------------------------------------------------------------
\* DockLayout (dock_layout.h)
\* ------------------------------------------------------------------------
defaultMin == F(120)
splitterThickness == F(4)

RECURSIVE recalculateMinSizes(_)
RECURSIVE recalculateEach(_, _)
recalculateEach(children, i) ==
    IF i > Len(children) THEN <<>>
    ELSE <<recalculateMinSizes(children[i])>> \o recalculateEach(children, i + 1)

\* maxW and totalH after the Tab case's loop has passed child i
RECURSIVE tabMaxW(_, _)
tabMaxW(children, i) ==
    IF i = 0 THEN FZero
    ELSE IF children[i] = Null THEN tabMaxW(children, i - 1)
    ELSE FMax(tabMaxW(children, i - 1), children[i].calculatedMinWidth)

RECURSIVE tabTotalH(_, _)
tabTotalH(children, i) ==
    IF i = 0 THEN FZero
    ELSE IF children[i] = Null THEN tabTotalH(children, i - 1)
    ELSE FAdd(tabTotalH(children, i - 1), children[i].calculatedMinHeight)

widgetMin(node, min) ==
    [node EXCEPT
        !.calculatedMinWidth = IF FGt(min.width, FZero) THEN min.width ELSE defaultMin,
        !.calculatedMinHeight = IF FGt(min.height, FZero) THEN min.height ELSE defaultMin]

tabMin(node, children) ==
    [node EXCEPT
        !.children = children,
        !.calculatedMinWidth =
            IF NonNull(children) = <<>> THEN defaultMin
            ELSE tabMaxW(children, Len(children)),
        !.calculatedMinHeight =
            IF NonNull(children) = <<>> THEN defaultMin
            ELSE tabTotalH(children, Len(children))]

\* a Split minimum that forgets the splitter
splitMinOfBare(node, first, second, w1, h1, w2, h2) ==
    IF node.vertical
    THEN [node EXCEPT
             !.first = first, !.second = second,
             !.calculatedMinWidth = FAdd(w1, w2),
             !.calculatedMinHeight = FMax(h1, h2),
             !.minFirstSize = w1, !.minSecondSize = w2]
    ELSE [node EXCEPT
             !.first = first, !.second = second,
             !.calculatedMinWidth = FMax(w1, w2),
             !.calculatedMinHeight = FAdd(h1, h2),
             !.minFirstSize = h1, !.minSecondSize = h2]

splitMinOf(node, first, second, w1, h1, w2, h2) ==
    IF node.vertical
    THEN [node EXCEPT
             !.first = first, !.second = second,
             !.calculatedMinWidth = FAdd(FAdd(w1, w2), splitterThickness),
             !.calculatedMinHeight = FMax(h1, h2),
             !.minFirstSize = w1, !.minSecondSize = w2]
    ELSE [node EXCEPT
             !.first = first, !.second = second,
             !.calculatedMinWidth = FMax(w1, w2),
             !.calculatedMinHeight = FAdd(FAdd(h1, h2), splitterThickness),
             !.minFirstSize = h1, !.minSecondSize = h2]

splitMin(node, first, second) ==
    splitMinOf(node, first, second,
               IF first # Null THEN first.calculatedMinWidth ELSE FZero,
               IF first # Null THEN first.calculatedMinHeight ELSE FZero,
               IF second # Null THEN second.calculatedMinWidth ELSE FZero,
               IF second # Null THEN second.calculatedMinHeight ELSE FZero)

recalculateMinSizes(node) ==
    IF node = Null THEN Null
    ELSE CASE node.type = "Widget" ->
                  widgetMin(node, IF node.widget # NoWidget THEN minimumSize(node.widget)
                                  ELSE DFSize(FZero, FZero))
           [] node.type = "Tab" -> tabMin(node, recalculateEach(node.children, 1))
           [] node.type = "Split" ->
                  splitMin(node, recalculateMinSizes(node.first),
                           recalculateMinSizes(node.second))

\* a computeSizes that lays out the sizes and writes nothing back
syncSizesNot(node, clampedTotal, firstSize, secondSize) ==
    [firstSize |-> firstSize, secondSize |-> secondSize,
     ratio |-> node.ratio, fixedSize |-> node.fixedSize]

\* the write-back at the end of computeSizes
syncSizes(node, clampedTotal, firstSize, secondSize) ==
    [firstSize |-> firstSize, secondSize |-> secondSize,
     ratio |-> IF FGt(clampedTotal, FZero) THEN FDiv(firstSize, clampedTotal)
               ELSE node.ratio,
     fixedSize |-> IF node.splitSizing = "FixedFirst" THEN firstSize
                   ELSE IF node.splitSizing = "FixedSecond" THEN secondSize
                   ELSE node.fixedSize]

\* a secondSize that is the whole extent
clampFirstWhole(node, clampedTotal, firstSize) ==
    syncSizes(node, clampedTotal, firstSize, clampedTotal)

\* firstSize clamped between the minimum and what the second minimum leaves
clampFirst(node, clampedTotal, firstSize) ==
    syncSizes(node, clampedTotal, firstSize, FSub(clampedTotal, firstSize))

\* a computeSizes that takes the requested size without the clamp
enforceMinsNot(node, clampedTotal, requested, minFirst, maxFirst) ==
    clampFirst(node, clampedTotal, requested)

enforceMins(node, clampedTotal, requested, minFirst, maxFirst) ==
    clampFirst(node, clampedTotal,
               FClamp(requested, minFirst,
                      IF FLt(maxFirst, minFirst) THEN minFirst ELSE maxFirst))

\* a request that reads fixedSize as the first size in both fixed modes
requestFirstFixed(node, clampedTotal, minFirst, minSecond) ==
    enforceMins(node, clampedTotal,
                IF node.splitSizing # "Ratio" THEN node.fixedSize
                ELSE FMul(clampedTotal, FClamp(node.ratio, FZero, F(1))),
                minFirst, FMax(FZero, FSub(clampedTotal, minSecond)))

requestFirst(node, clampedTotal, minFirst, minSecond) ==
    enforceMins(node, clampedTotal,
                IF node.splitSizing = "FixedFirst" THEN node.fixedSize
                ELSE IF node.splitSizing = "FixedSecond"
                THEN FSub(clampedTotal, node.fixedSize)
                ELSE FMul(clampedTotal, FClamp(node.ratio, FZero, F(1))),
                minFirst, FMax(FZero, FSub(clampedTotal, minSecond)))

\* minimums left as they are when they do not fit
scaleMinsNot(node, clampedTotal, minFirst, minSecond, scale) ==
    requestFirst(node, clampedTotal, minFirst, minSecond)

scaleMins(node, clampedTotal, minFirst, minSecond, scale) ==
    requestFirst(node, clampedTotal, FMul(minFirst, scale), FMul(minSecond, scale))

compressMins(node, clampedTotal, minFirst, minSecond, minSum) ==
    IF FGt(clampedTotal, FZero) /\ FGt(minSum, clampedTotal)
    THEN scaleMins(node, clampedTotal, minFirst, minSecond, FDiv(clampedTotal, minSum))
    ELSE requestFirst(node, clampedTotal, minFirst, minSecond)

clampMins(node, clampedTotal, minFirst, minSecond) ==
    compressMins(node, clampedTotal, minFirst, minSecond, FAdd(minFirst, minSecond))

clampTotal(node, clampedTotal) ==
    clampMins(node, clampedTotal,
              FClamp(node.minFirstSize, FZero, clampedTotal),
              FClamp(node.minSecondSize, FZero, clampedTotal))

\* the computeSizes lambda of updateNode: firstSize, secondSize and the
\* ratio and fixedSize it writes back
computeSizes(node, total) == clampTotal(node, FMax(FZero, total))

RECURSIVE updateNode(_, _)
RECURSIVE updateTabChildren(_, _, _, _, _)
updateTabChildren(children, bounds, sliceH, i, y) ==
    IF i > Len(children) THEN <<>>
    ELSE <<updateNode(children[i],
                      DFRect(bounds.x, y, bounds.width,
                             IF i = Len(children)
                             THEN FMax(FZero, FSub(FAdd(bounds.y, bounds.height), y))
                             ELSE FMax(FZero, sliceH)))>>
         \o updateTabChildren(children, bounds, sliceH, i + 1, FAdd(y, sliceH))

updateSplit(node, bounds, sizes) ==
    IF node.vertical
    THEN [node EXCEPT
             !.bounds = bounds, !.ratio = sizes.ratio, !.fixedSize = sizes.fixedSize,
             !.first = updateNode(node.first,
                 DFRect(bounds.x, bounds.y, sizes.firstSize, bounds.height)),
             !.second = updateNode(node.second,
                 DFRect(FAdd(bounds.x, sizes.firstSize), bounds.y, sizes.secondSize,
                        bounds.height))]
    ELSE [node EXCEPT
             !.bounds = bounds, !.ratio = sizes.ratio, !.fixedSize = sizes.fixedSize,
             !.first = updateNode(node.first,
                 DFRect(bounds.x, bounds.y, bounds.width, sizes.firstSize)),
             !.second = updateNode(node.second,
                 DFRect(bounds.x, FAdd(bounds.y, sizes.firstSize), bounds.width,
                        sizes.secondSize))]

updateNode(node, bounds) ==
    CASE node.type = "Split" ->
            IF node.first = Null \/ node.second = Null
            THEN [node EXCEPT !.bounds = bounds]
            ELSE updateSplit(node, bounds,
                             computeSizes(node, IF node.vertical THEN bounds.width
                                                ELSE bounds.height))
      [] node.type = "Tab" ->
            IF node.children = <<>> THEN [node EXCEPT !.bounds = bounds]
            ELSE [node EXCEPT
                     !.bounds = bounds,
                     !.children =
                         updateTabChildren(node.children, bounds,
                                           FDiv(bounds.height, F(Len(node.children))),
                                           1, bounds.y)]
      [] OTHER -> [node EXCEPT !.bounds = bounds]

\* the (panel, bounds) pairs of the setBounds calls updateNode makes, in order
RECURSIVE setBoundsCalls(_)
RECURSIVE setBoundsCallsOfChildren(_, _)
setBoundsCallsOfChildren(children, i) ==
    IF i > Len(children) THEN <<>>
    ELSE setBoundsCalls(children[i]) \o setBoundsCallsOfChildren(children, i + 1)

setBoundsCalls(node) ==
    CASE node.type = "Split" ->
            IF node.first = Null \/ node.second = Null THEN <<>>
            ELSE setBoundsCalls(node.first) \o setBoundsCalls(node.second)
      [] node.type = "Tab" -> setBoundsCallsOfChildren(node.children, 1)
      [] node.type = "Widget" ->
            IF node.widget # NoWidget THEN <<<<node.widget, node.bounds>>>> ELSE <<>>
      [] OTHER -> <<>>

\* the panels markTabified calls setTabified(false) on
RECURSIVE markTabified(_)
markTabified(node) ==
    IF node = Null THEN {}
    ELSE (IF node.type = "Widget" /\ node.widget # NoWidget THEN {node.widget} ELSE {})
         \cup (IF node.type = "Tab"
               THEN UNION {markTabified(node.children[i]) : i \in 1..Len(node.children)}
               ELSE {})
         \cup markTabified(node.first) \cup markTabified(node.second)

\* ------------------------------------------------------------------------
\* The program state handed from handler to handler:
\*   root     DockLayout::root_
\*   panels   the DockWidget objects
\*   windows  WindowManager::windows_ (a WindowFrame* is the frame's id)
\*   mgr      the DockManager singleton
\* ------------------------------------------------------------------------
NoWindow == 0

DockWidget ==
    [floating |-> FALSE, isTabified |-> FALSE, hostType |-> "None",
     hostWindow |-> NoWindow, bounds |-> ZeroRect]

DragData ==
    [widget |-> NoWidget, startPos |-> ZeroPoint, lastPos |-> ZeroPoint,
     currentPos |-> ZeroPoint, startBounds |-> ZeroRect, active |-> FALSE]

DockManager ==
    [drag |-> DragData, dragBounds |-> ZeroRect, hasDragBounds |-> FALSE,
     overlayVisible |-> FALSE, overlayZones |-> <<>>,
     draggedFloatingWindow |-> NoWindow, dragGrabOffset |-> ZeroPoint,
     suppressDockOnNextDrop |-> FALSE, dropCandidates |-> <<>>,
     highlightedCandidateIndex |-> -1]

\* DockManager::mainContainerBounds_ as setMainLayout leaves it, and
\* WindowManager::workArea_
mainContainerBounds == DFRect(FZero, FZero, F(640), F(480))
workArea == DFRect(FZero, FZero, F(1280), F(720))
edgeDockActivateDistancePx == F(8)
TITLE_BAR_HEIGHT == F(24)

\* DockWidget::setBounds
setBounds(panel, r) ==
    IF panel.floating THEN [panel EXCEPT !.bounds = r]
    ELSE [panel EXCEPT !.bounds = r, !.hostType = "DockedLayout", !.hostWindow = NoWindow]

RECURSIVE applySetBounds(_, _, _)
applySetBounds(panels, calls, i) ==
    IF i > Len(calls) THEN panels
    ELSE applySetBounds(
             [panels EXCEPT ![calls[i][1]] = setBounds(panels[calls[i][1]], calls[i][2])],
             calls, i + 1)

setTabified(panels, marked, tabified) ==
    [p \in DOMAIN panels |->
        IF p \in marked THEN [panels[p] EXCEPT !.isTabified = tabified] ELSE panels[p]]

\* DockLayout::update, from the normalized root on
updateLaidOut(W, normalized, laidOut) ==
    [W EXCEPT !.root = laidOut,
              !.panels = applySetBounds(setTabified(W.panels, markTabified(normalized), FALSE),
                                        setBoundsCalls(laidOut), 1)]

updateNormalized(W, containerBounds, normalized) ==
    IF normalized = Null THEN [W EXCEPT !.root = Null]
    ELSE updateLaidOut(W, normalized,
                       updateNode(recalculateMinSizes(normalized), containerBounds))

\* DockLayout::update
update(W, containerBounds) ==
    IF W.root = Null THEN W
    ELSE updateNormalized(W, containerBounds, normalizeNode(W.root))

\* ------------------------------------------------------------------------
\* WindowManager / WindowFrame (window_manager.cpp)
\* ------------------------------------------------------------------------
contentBounds(b) ==
    DFRect(b.x, FAdd(b.y, TITLE_BAR_HEIGHT), b.width, FSub(b.height, TITLE_BAR_HEIGHT))

windowIds(W) == {W.windows[i].id : i \in 1..Len(W.windows)}
hasWindow(W, window) == window # NoWindow /\ window \in windowIds(W)
frameOf(W, window) == W.windows[CHOOSE i \in 1..Len(W.windows) : W.windows[i].id = window]

findWindowByContent(W, widget) ==
    IF widget = NoWidget \/ \A i \in 1..Len(W.windows) : W.windows[i].content # widget
    THEN NoWindow
    ELSE W.windows[CHOOSE i \in 1..Len(W.windows) :
                       /\ W.windows[i].content = widget
                       /\ \A j \in 1..(i - 1) : W.windows[j].content # widget].id

\* WindowFrame::setBounds
setWindowBounds(W, window, bounds) ==
    [W EXCEPT
        !.windows = [i \in 1..Len(W.windows) |->
                        IF W.windows[i].id = window
                        THEN [W.windows[i] EXCEPT !.bounds = bounds]
                        ELSE W.windows[i]],
        !.panels = IF frameOf(W, window).content # NoWidget
                   THEN [@ EXCEPT ![frameOf(W, window).content] =
                            setBounds(@, contentBounds(bounds))]
                   ELSE @]

\* WindowManager::createFloatingWindow; `id` is the address the new frame gets
createFloatingWindow(W, widget, bounds, id) ==
    [W EXCEPT
        !.panels[widget] =
            [setBounds([@ EXCEPT !.floating = TRUE, !.isTabified = FALSE,
                                 !.hostType = "FloatingWindow"],
                       contentBounds(bounds))
             EXCEPT !.hostWindow = id],
        !.windows = Append(@, [id |-> id, content |-> widget, bounds |-> bounds])]

\* a destroyWindow that leaves the frame in the window list
destroyWindowNot(W, window) == W

\* WindowManager::destroyWindow
destroyWindow(W, window) ==
    [W EXCEPT
        !.panels = IF hasWindow(W, window) /\ frameOf(W, window).content # NoWidget
                   THEN [@ EXCEPT ![frameOf(W, window).content] =
                            [@ EXCEPT !.floating = FALSE, !.hostWindow = NoWindow,
                                      !.hostType = "DockedLayout"]]
                   ELSE @,
        !.windows = SelectSeq(@, LAMBDA w : w.id # window)]

\* ------------------------------------------------------------------------
\* DockManager (dock_framework.cpp)
\* ------------------------------------------------------------------------
\* a cancelFloatingDrag that forgets the dragged window
cancelFloatingDragNot(W) ==
    [W EXCEPT !.mgr.overlayZones = <<>>,
              !.mgr.overlayVisible = FALSE,
              !.mgr.highlightedCandidateIndex = -1,
              !.mgr.suppressDockOnNextDrop = FALSE]

cancelFloatingDrag(W) ==
    [W EXCEPT !.mgr.overlayZones = <<>>,
              !.mgr.overlayVisible = FALSE,
              !.mgr.highlightedCandidateIndex = -1,
              !.mgr.suppressDockOnNextDrop = FALSE,
              !.mgr.draggedFloatingWindow = NoWindow]

suppressDockForActiveFloatingDrag(W) ==
    IF W.mgr.draggedFloatingWindow # NoWindow
    THEN [W EXCEPT !.mgr.suppressDockOnNextDrop = TRUE]
    ELSE W

startDrag(W, widget, mousePos) ==
    [W EXCEPT !.mgr.drag =
        [widget |-> widget, startPos |-> mousePos, lastPos |-> mousePos,
         currentPos |-> mousePos,
         startBounds |-> IF widget # NoWidget THEN W.panels[widget].bounds ELSE ZeroRect,
         active |-> widget # NoWidget]]

endDrag(W) == [W EXCEPT !.mgr.drag = DragData]

startFloatingDrag(W, window, mousePos) ==
    IF window = NoWindow \/ W.mgr.draggedFloatingWindow # NoWindow THEN W
    ELSE [W EXCEPT !.mgr.draggedFloatingWindow = window,
                   !.mgr.dragGrabOffset =
                       DFPoint(FSub(mousePos.x, frameOf(W, window).bounds.x),
                               FSub(mousePos.y, frameOf(W, window).bounds.y)),
                   !.mgr.suppressDockOnNextDrop = FALSE,
                   !.mgr.overlayVisible = TRUE]

\* what closeWidget and closeDockedWidget leave of the panel
\* a close that leaves the host state as it was
closedHosted(panel) ==
    [setBounds(panel, ZeroRect) EXCEPT !.isTabified = FALSE]

closed(panel) ==
    [setBounds(panel, ZeroRect) EXCEPT
        !.isTabified = FALSE, !.hostType = "None", !.hostWindow = NoWindow]

\* a closeDockedWidget that takes the root and does not put it back when the
\* panel is not found
closeDockedTaken(W, widget, removed) ==
    IF ~removed.found THEN [W EXCEPT !.root = Null]
    ELSE [W EXCEPT !.root = NormalizeNode(removed.node),
                   !.panels[widget] = closed(@)]

closeDockedRemoved(W, widget, removed) ==
    IF ~removed.found THEN W
    ELSE [W EXCEPT !.root = NormalizeNode(removed.node),
                   !.panels[widget] = closed(@)]

closeDockedWidget(W, widget) ==
    IF widget = NoWidget \/ W.panels[widget].floating THEN W
    ELSE IF W.root = Null THEN W
    ELSE closeDockedRemoved(W, widget, RemoveWidgetNode(W.root, widget))

closeFloating(W, widget, frame) ==
    [(IF frame # NoWindow THEN destroyWindow(W, frame) ELSE W)
     EXCEPT !.panels[widget] = closed(@)]

closeWidget(W, widget) ==
    IF widget = NoWidget THEN W
    ELSE IF W.panels[widget].floating
    THEN closeFloating(W, widget, findWindowByContent(W, widget))
    ELSE closeDockedWidget(W, widget)

\* the floating window's first bounds
undockBounds(bounds) ==
    [bounds EXCEPT !.width = FMax(bounds.width, F(300)),
                   !.height = FMax(bounds.height, F(200))]

undockInto(W, widget, mousePos, id, bounds) ==
    startFloatingDrag(
        createFloatingWindow(
            W, widget,
            undockBounds(IF FLe(bounds.width, F(1)) \/ FLe(bounds.height, F(1))
                         THEN DFRect(FAdd(mainContainerBounds.x, F(100)),
                                     FAdd(mainContainerBounds.y, F(80)),
                                     F(320), F(220))
                         ELSE bounds),
            id),
        id, mousePos)

startUndockRemoved(W, widget, mousePos, id, removed) ==
    IF ~removed.found THEN W
    ELSE IF removed.extracted = Null \/ removed.extracted.type # "Widget"
            \/ removed.extracted.widget # widget
    THEN [W EXCEPT !.root = NormalizeNode(removed.node)]
    ELSE undockInto([W EXCEPT !.root = NormalizeNode(removed.node)], widget, mousePos, id,
                    W.panels[widget].bounds)

startUndockDrag(W, widget, mousePos, id) ==
    IF widget = NoWidget \/ W.panels[widget].floating THEN W
    ELSE IF W.root = Null THEN W
    ELSE startUndockRemoved(W, widget, mousePos, id, RemoveWidgetNode(W.root, widget))

\* the undock threshold of updateDrag
undockDistanceSq(startBounds) ==
    IF /\ FGt(FMul(mainContainerBounds.width, mainContainerBounds.height), F(1))
       /\ FGt(FDiv(FMul(startBounds.width, startBounds.height),
                   FMul(mainContainerBounds.width, mainContainerBounds.height)),
              FQ(85, 100))
    THEN F(1024) ELSE F(4900)

distanceSq(dx, dy) == FAdd(FMul(dx, dx), FMul(dy, dy))

movedEnough(drag, mousePos) ==
    FGt(distanceSq(FSub(mousePos.x, drag.startPos.x), FSub(mousePos.y, drag.startPos.y)),
        undockDistanceSq(drag.startBounds))

\* a test that takes every panel for tabified
isSingleDockedNot(panel) == FALSE

isSingleDocked(panel) == ~panel.floating /\ ~panel.isTabified

\* the clamp updateDrag, updateFloatingDrag and endFloatingDrag apply to a
\* moved rectangle: no larger than the area and inside it
keepInsideMax(b, area, w, h, maxX, maxY) ==
    DFRect(FClamp(b.x, area.x, IF FLt(maxX, area.x) THEN area.x ELSE maxX),
           FClamp(b.y, area.y, IF FLt(maxY, area.y) THEN area.y ELSE maxY),
           w, h)

keepInsideSized(b, area, w, h) ==
    keepInsideMax(b, area, w, h, FSub(FAdd(area.x, area.width), w),
                  FSub(FAdd(area.y, area.height), h))

\* a clamp that keeps the rectangle's size
keepInsideUncapped(b, area) ==
    keepInsideSized(b, area, b.width, b.height)

keepInside(b, area) ==
    keepInsideSized(b, area,
                    IF FGt(b.width, area.width) THEN area.width ELSE b.width,
                    IF FGt(b.height, area.height) THEN area.height ELSE b.height)

\* updateDrag's branch for a floating panel
dragFloatingPanel(W, mousePos, moved) ==
    [W EXCEPT !.panels[W.mgr.drag.widget] =
                  setBounds(@, IF W.mgr.hasDragBounds THEN keepInside(moved, W.mgr.dragBounds)
                               ELSE moved),
              !.mgr.drag.currentPos = mousePos,
              !.mgr.drag.lastPos = mousePos]

updateDrag(W, mousePos, id) ==
    IF ~W.mgr.drag.active \/ W.mgr.drag.widget = NoWidget THEN W
    ELSE IF ~W.panels[W.mgr.drag.widget].floating
    THEN IF isSingleDocked(W.panels[W.mgr.drag.widget]) /\ movedEnough(W.mgr.drag, mousePos)
         THEN startUndockDrag(endDrag(W), W.mgr.drag.widget, mousePos, id)
         ELSE [W EXCEPT !.mgr.drag.currentPos = mousePos, !.mgr.drag.lastPos = mousePos]
    ELSE dragFloatingPanel(
             W, mousePos,
             [W.panels[W.mgr.drag.widget].bounds EXCEPT
                 !.x = FAdd(@, FSub(mousePos.x, W.mgr.drag.lastPos.x)),
                 !.y = FAdd(@, FSub(mousePos.y, W.mgr.drag.lastPos.y))])

\* ------------------------------------------------------------------------
\* Drop-candidate collection (DockManager::updateFloatingDrag)
\* ------------------------------------------------------------------------
\* members of DockManager and DockTheme that dock_framework.cpp reads
rootDockHeaderInsetPx == FZero
innerSplitSnapZonePx == F(48)
clientAreaBorderThickness == F(1)

insetBy(rect, cx, cy) ==
    DFRect(FAdd(rect.x, cx), FAdd(rect.y, cy),
           FMax(FZero, FSub(rect.width, FMul(cx, F(2)))),
           FMax(FZero, FSub(rect.height, FMul(cy, F(2)))))

InsetRect(rect, insetX, insetY) ==
    insetBy(rect, FMax(FZero, FMin(insetX, FMul(rect.width, FQ(1, 2)))),
            FMax(FZero, FMin(insetY, FMul(rect.height, FQ(1, 2)))))

hintRect(inner, hintW, hintH) ==
    DFRect(FAdd(inner.x, FMax(FZero, FMul(FSub(inner.width, hintW), FQ(1, 2)))),
           FAdd(inner.y, FMax(FZero, FSub(FSub(inner.height, hintH), F(1)))),
           hintW, hintH)

hintInside(inner) ==
    hintRect(inner,
             FMin(inner.width, FClamp(FMul(inner.width, FQ(28, 100)), F(84), F(220))),
             FClamp(FMul(inner.height, FQ(28, 100)), F(4), F(8)))

MakeBottomEdgeTabHintRect(stripRect) == hintInside(InsetRect(stripRect, F(3), F(1)))

intersectionOf(x0, y0, x1, y1) ==
    DFRect(x0, y0, FMax(FZero, FSub(x1, x0)), FMax(FZero, FSub(y1, y0)))

rectIntersection(a, b) ==
    intersectionOf(FMax(a.x, b.x), FMax(a.y, b.y),
                   FMin(FAdd(a.x, a.width), FAdd(b.x, b.width)),
                   FMin(FAdd(a.y, a.height), FAdd(b.y, b.height)))

rectArea(r) == FMul(FMax(FZero, r.width), FMax(FZero, r.height))

fitsParentAsAbsolute(nodeBounds, parent) ==
    /\ FGe(nodeBounds.x, FSub(parent.x, F(1)))
    /\ FGe(nodeBounds.y, FSub(parent.y, F(1)))
    /\ FLe(FAdd(nodeBounds.x, nodeBounds.width),
           FAdd(FAdd(parent.x, parent.width), F(1)))
    /\ FLe(FAdd(nodeBounds.y, nodeBounds.height),
           FAdd(FAdd(parent.y, parent.height), F(1)))

fitsParentAsLocal(nodeBounds, parent) ==
    /\ FGe(nodeBounds.x, FNeg(F(1)))
    /\ FGe(nodeBounds.y, FNeg(F(1)))
    /\ FLe(FAdd(nodeBounds.x, nodeBounds.width), FAdd(parent.width, F(1)))
    /\ FLe(FAdd(nodeBounds.y, nodeBounds.height), FAdd(parent.height, F(1)))

betterOverlap(nodeBounds, parent, translated) ==
    IF FGt(rectArea(rectIntersection(translated, parent)),
           FAdd(rectArea(rectIntersection(nodeBounds, parent)), FQ(1, 2)))
    THEN translated ELSE nodeBounds

resolveNodeBoundsToRoot(nodeBounds, parent) ==
    IF ~fitsParentAsLocal(nodeBounds, parent) THEN nodeBounds
    ELSE IF ~fitsParentAsAbsolute(nodeBounds, parent)
    THEN DFRect(FAdd(parent.x, nodeBounds.x), FAdd(parent.y, nodeBounds.y),
                nodeBounds.width, nodeBounds.height)
    ELSE betterOverlap(nodeBounds, parent,
                       DFRect(FAdd(parent.x, nodeBounds.x), FAdd(parent.y, nodeBounds.y),
                              nodeBounds.width, nodeBounds.height))

\* headerInset and rootContainer as updateFloatingDrag computes them
insetContainer(container, headerInset) ==
    DFRect(container.x, FAdd(container.y, headerInset), container.width,
           FMax(FZero, FSub(container.height, headerInset)))

rootContainerOf(container) ==
    insetContainer(container,
                   FClamp(rootDockHeaderInsetPx, FZero, FMax(FZero, container.height)))

\* the window bounds that follow the cursor, kept inside the work area
followCursor(bounds, grabOffset, mousePos) ==
    IF FGt(workArea.width, FZero) /\ FGt(workArea.height, FZero)
    THEN keepInside(DFRect(FSub(mousePos.x, grabOffset.x), FSub(mousePos.y, grabOffset.y),
                           bounds.width, bounds.height),
                    workArea)
    ELSE DFRect(FSub(mousePos.x, grabOffset.x), FSub(mousePos.y, grabOffset.y),
                bounds.width, bounds.height)

movedBounds(W, mousePos) ==
    followCursor(frameOf(W, W.mgr.draggedFloatingWindow).bounds, W.mgr.dragGrabOffset,
                 mousePos)

isEdgeZone(zone) == zone \in {"Left", "Right", "Top", "Bottom"}

edgeDistances(rootContainer, mousePos) ==
    [left |-> FAbs(FSub(mousePos.x, rootContainer.x)),
     right |-> FAbs(FSub(FAdd(rootContainer.x, rootContainer.width), mousePos.x)),
     top |-> FAbs(FSub(mousePos.y, rootContainer.y)),
     bottom |-> FAbs(FSub(FAdd(rootContainer.y, rootContainer.height), mousePos.y))]

minDistOf(d) == FMin(FMin(d.left, d.right), FMin(d.top, d.bottom))

\* nearestEdge after each of the three comparisons
nearerOf(dist, zone, nearest) == IF FLt(dist, nearest[1]) THEN <<dist, zone>> ELSE nearest

nearestEdgeOf(d) ==
    nearerOf(d.bottom, "Bottom",
             nearerOf(d.top, "Top", nearerOf(d.right, "Right", <<d.left, "Left">>)))[2]

edgeStrip(rootContainer, nearestEdge, edgeThickness, edgeInset) ==
    CASE nearestEdge = "Left" ->
            DFRect(FAdd(rootContainer.x, edgeInset), FAdd(rootContainer.y, edgeInset),
                   edgeThickness,
                   FMax(FZero, FSub(rootContainer.height, FMul(edgeInset, F(2)))))
      [] nearestEdge = "Right" ->
            DFRect(FSub(FSub(FAdd(rootContainer.x, rootContainer.width), edgeInset),
                        edgeThickness),
                   FAdd(rootContainer.y, edgeInset), edgeThickness,
                   FMax(FZero, FSub(rootContainer.height, FMul(edgeInset, F(2)))))
      [] nearestEdge = "Top" ->
            DFRect(FAdd(rootContainer.x, edgeInset), FAdd(rootContainer.y, edgeInset),
                   FMax(FZero, FSub(rootContainer.width, FMul(edgeInset, F(2)))),
                   edgeThickness)
      [] nearestEdge = "Bottom" ->
            DFRect(FAdd(rootContainer.x, edgeInset),
                   FSub(FSub(FAdd(rootContainer.y, rootContainer.height), edgeInset),
                        edgeThickness),
                   FMax(FZero, FSub(rootContainer.width, FMul(edgeInset, F(2)))),
                   edgeThickness)

edgeStripOf(rootContainer, nearestEdge, edgeThickness) ==
    edgeStrip(rootContainer, nearestEdge, edgeThickness,
              FClamp(FMul(edgeThickness, FQ(3, 4)), F(1), F(2)))

rootEdgeBounds(rootContainer, nearestEdge) ==
    edgeStripOf(rootContainer, nearestEdge,
                FClamp(FMul(clientAreaBorderThickness, F(2)), FQ(3, 2), F(4)))

DropCandidate(zone, target, bounds, depth) ==
    [zone |-> zone, target |-> target, bounds |-> bounds, overlayIndex |-> 0,
     depth |-> depth]

\* the addCandidate call a tab or header strip gives rise to
tabHint(tabHintRect, path, depth, mousePos) ==
    IF /\ FGt(tabHintRect.width, F(1))
       /\ FGt(tabHintRect.height, F(1))
       /\ contains(tabHintRect, mousePos)
    THEN <<DropCandidate("Tab", path, tabHintRect, depth)>>
    ELSE <<>>

stripOf(b, stripH) ==
    DFRect(b.x, b.y, b.width, FClamp(stripH, FZero, FMax(FZero, b.height)))

\* the addCandidate calls collectTabTargets makes, in order
RECURSIVE collectTabTargets(_, _, _, _, _, _)
RECURSIVE collectTabChildren(_, _, _, _, _, _, _)
collectTabChildren(node, i, depth, nodeBoundsRoot, path, movingWidget, mousePos) ==
    IF i > Len(node.children) THEN <<>>
    ELSE collectTabTargets(node.children[i], depth, nodeBoundsRoot,
                           Append(path, 2 + i), movingWidget, mousePos)
         \o collectTabChildren(node, i + 1, depth, nodeBoundsRoot, path, movingWidget,
                               mousePos)

collectTabAt(node, depth, nodeBoundsRoot, path, movingWidget, mousePos) ==
    IF node.type = "Widget" /\ node.widget # NoWidget /\ node.widget # movingWidget
    THEN tabHint(MakeBottomEdgeTabHintRect(stripOf(nodeBoundsRoot, F(24))), path, depth,
                 mousePos)
    ELSE (IF node.type = "Tab" /\ node.children # <<>>
          THEN tabHint(MakeBottomEdgeTabHintRect(stripOf(nodeBoundsRoot, node.tabBarHeight)),
                       path, depth, mousePos)
          ELSE <<>>)
         \o collectTabTargets(node.first, depth + 1, nodeBoundsRoot, Append(path, 1),
                              movingWidget, mousePos)
         \o collectTabTargets(node.second, depth + 1, nodeBoundsRoot, Append(path, 2),
                              movingWidget, mousePos)
         \o collectTabChildren(node, 1, depth + 1, nodeBoundsRoot, path, movingWidget,
                               mousePos)

collectTabTargets(node, depth, parentRootBounds, path, movingWidget, mousePos) ==
    IF node = Null THEN <<>>
    ELSE collectTabAt(node, depth, resolveNodeBoundsToRoot(node.bounds, parentRootBounds),
                      path, movingWidget, mousePos)

\* the addCandidate call an inner edge zone of b gives rise to
splitZones(b, path, depth, mousePos, zoneW, zoneH, topOffset) ==
    IF contains(DFRect(b.x, b.y, zoneW, b.height), mousePos)
    THEN <<DropCandidate("Left", path, DFRect(b.x, b.y, zoneW, b.height), depth)>>
    ELSE IF contains(DFRect(FSub(FAdd(b.x, b.width), zoneW), b.y, zoneW, b.height),
                     mousePos)
    THEN <<DropCandidate("Right", path,
                         DFRect(FSub(FAdd(b.x, b.width), zoneW), b.y, zoneW, b.height),
                         depth)>>
    ELSE IF /\ FGt(FMin(zoneH, FMax(FZero, FSub(b.height, topOffset))), F(1))
            /\ contains(DFRect(b.x, FAdd(b.y, topOffset), b.width,
                               FMin(zoneH, FMax(FZero, FSub(b.height, topOffset)))),
                        mousePos)
    THEN <<DropCandidate("Top", path,
                         DFRect(b.x, FAdd(b.y, topOffset), b.width,
                                FMin(zoneH, FMax(FZero, FSub(b.height, topOffset)))),
                         depth)>>
    ELSE IF contains(DFRect(b.x, FSub(FAdd(b.y, b.height), zoneH), b.width, zoneH),
                     mousePos)
    THEN <<DropCandidate("Bottom", path,
                         DFRect(b.x, FSub(FAdd(b.y, b.height), zoneH), b.width, zoneH),
                         depth)>>
    ELSE <<>>

\* the addCandidate calls collectSplitTargets makes, in order
RECURSIVE collectSplitTargets(_, _, _, _, _, _, _)
RECURSIVE collectSplitChildren(_, _, _, _, _, _, _, _)
collectSplitChildren(node, i, depth, inside, nodeBoundsRoot, path, movingWidget, mousePos) ==
    IF i > Len(node.children) THEN <<>>
    ELSE collectSplitTargets(node.children[i], depth, inside, nodeBoundsRoot,
                             Append(path, 2 + i), movingWidget, mousePos)
         \o collectSplitChildren(node, i + 1, depth, inside, nodeBoundsRoot, path,
                                 movingWidget, mousePos)

\* edge zones offered on the panels inside a Tab node as well
collectSplitAtInTabs(node, depth, insideTabContainer, b, path, movingWidget, mousePos) ==
    collectSplitTargets(node.first, depth + 1, insideTabContainer \/ node.type = "Tab", b,
                        Append(path, 1), movingWidget, mousePos)
    \o collectSplitTargets(node.second, depth + 1, insideTabContainer \/ node.type = "Tab",
                           b, Append(path, 2), movingWidget, mousePos)
    \o collectSplitChildren(node, 1, depth + 1, insideTabContainer \/ node.type = "Tab", b,
                            path, movingWidget, mousePos)
    \o (IF /\ ~(/\ TRUE
                /\ node.type = "Widget"
                /\ node.widget # NoWidget
                /\ node.widget # movingWidget)
           /\ ~(node.type = "Tab" /\ node.children # <<>>)
        THEN <<>>
        ELSE IF FLt(b.width, F(40)) \/ FLt(b.height, F(40)) \/ ~contains(b, mousePos)
        THEN <<>>
        ELSE splitZones(b, path, depth, mousePos,
                        FMin(innerSplitSnapZonePx, FMul(b.width, FQ(2, 5))),
                        FMin(innerSplitSnapZonePx, FMul(b.height, FQ(2, 5))),
                        IF node.type = "Tab"
                        THEN FClamp(node.tabBarHeight, FZero,
                                    FMax(FZero, FSub(b.height, F(1))))
                        ELSE FZero))

collectSplitAt(node, depth, insideTabContainer, b, path, movingWidget, mousePos) ==
    collectSplitTargets(node.first, depth + 1, insideTabContainer \/ node.type = "Tab", b,
                        Append(path, 1), movingWidget, mousePos)
    \o collectSplitTargets(node.second, depth + 1, insideTabContainer \/ node.type = "Tab",
                           b, Append(path, 2), movingWidget, mousePos)
    \o collectSplitChildren(node, 1, depth + 1, insideTabContainer \/ node.type = "Tab", b,
                            path, movingWidget, mousePos)
    \o (IF /\ ~(/\ ~insideTabContainer
                /\ node.type = "Widget"
                /\ node.widget # NoWidget
                /\ node.widget # movingWidget)
           /\ ~(node.type = "Tab" /\ node.children # <<>>)
        THEN <<>>
        ELSE IF FLt(b.width, F(40)) \/ FLt(b.height, F(40)) \/ ~contains(b, mousePos)
        THEN <<>>
        ELSE splitZones(b, path, depth, mousePos,
                        FMin(innerSplitSnapZonePx, FMul(b.width, FQ(2, 5))),
                        FMin(innerSplitSnapZonePx, FMul(b.height, FQ(2, 5))),
                        IF node.type = "Tab"
                        THEN FClamp(node.tabBarHeight, FZero,
                                    FMax(FZero, FSub(b.height, F(1))))
                        ELSE FZero))

collectSplitTargets(node, depth, insideTabContainer, parentRootBounds, path,
                    movingWidget, mousePos) ==
    IF node = Null THEN <<>>
    ELSE collectSplitAt(node, depth, insideTabContainer,
                        resolveNodeBoundsToRoot(node.bounds, parentRootBounds), path,
                        movingWidget, mousePos)

\* addCandidate, applied to the calls in order: clip to the root container,
\* drop what is left thinner than a pixel, number the overlay zones
RECURSIVE addCandidates(_, _, _, _)
addCandidate(calls, i, rootContainer, acc, clipped) ==
    IF FLe(clipped.width, F(1)) \/ FLe(clipped.height, F(1))
    THEN addCandidates(calls, i + 1, rootContainer, acc)
    ELSE addCandidates(calls, i + 1, rootContainer,
                       Append(acc, [calls[i] EXCEPT !.bounds = clipped,
                                                    !.overlayIndex = Len(acc)]))

addCandidates(calls, i, rootContainer, acc) ==
    IF i > Len(calls) THEN acc
    ELSE addCandidate(calls, i, rootContainer, acc,
                      rectIntersection(calls[i].bounds, rootContainer))

candidatePriority(candidate, minDist) ==
    IF candidate.zone \in {"Tab", "Center"} THEN 5
    ELSE IF isEdgeZone(candidate.zone)
    THEN IF candidate.depth = 0 /\ FLe(minDist, F(20)) THEN 6
         ELSE IF candidate.depth > 0 THEN 4 ELSE 3
    ELSE 0

\* an area that makes the larger rectangle win
candidateAreaLargest(candidate) ==
    FNeg(FMul(candidate.bounds.width, candidate.bounds.height))

candidateArea(candidate) == FMul(candidate.bounds.width, candidate.bounds.height)

\* the selection loop of updateFloatingDrag; 0 when nothing is hovered,
\* else the position in dropCandidates_ of `hovered`
RECURSIVE hoveredCandidate(_, _, _, _, _, _)
hoveredCandidate(cands, i, best, mousePos, nearestEdge, minDist) ==
    IF i > Len(cands) THEN best
    ELSE IF /\ ~contains(cands[i].bounds, mousePos)
            /\ ~(/\ cands[i].depth > 0
                 /\ isEdgeZone(cands[i].zone)
                 /\ cands[i].zone = nearestEdge
                 /\ FLe(minDist, edgeDockActivateDistancePx))
    THEN hoveredCandidate(cands, i + 1, best, mousePos, nearestEdge, minDist)
    ELSE IF \/ best = 0
            \/ candidatePriority(cands[i], minDist) > candidatePriority(cands[best], minDist)
            \/ /\ candidatePriority(cands[i], minDist) = candidatePriority(cands[best], minDist)
               /\ cands[i].depth > cands[best].depth
            \/ /\ candidatePriority(cands[i], minDist) = candidatePriority(cands[best], minDist)
               /\ cands[i].depth = cands[best].depth
               /\ FLt(candidateArea(cands[i]), candidateArea(cands[best]))
    THEN hoveredCandidate(cands, i + 1, i, mousePos, nearestEdge, minDist)
    ELSE hoveredCandidate(cands, i + 1, best, mousePos, nearestEdge, minDist)

zonesOf(cands) ==
    [i \in 1..Len(cands) |->
        [type |-> cands[i].zone, bounds |-> cands[i].bounds, highlighted |-> FALSE]]

highlightZone(zones, zone) ==
    [i \in 1..Len(zones) |->
        [zones[i] EXCEPT !.highlighted = (zones[i].type = zone /\ zone # "None")]]

highlightZoneIndex(zones, index) ==
    [i \in 1..Len(zones) |-> [zones[i] EXCEPT !.highlighted = (i - 1 = index)]]

\* a first candidate, the root edge, highlighted when no candidate is hovered
highlightRootEdge(W, cands, hovered) ==
    [W EXCEPT
        !.mgr.dropCandidates = cands,
        !.mgr.overlayZones =
            highlightZoneIndex(zonesOf(cands),
                               IF hovered # 0 THEN cands[hovered].overlayIndex ELSE 0),
        !.mgr.highlightedCandidateIndex =
            IF hovered # 0 THEN cands[hovered].overlayIndex
            ELSE IF cands # <<>> THEN 0 ELSE -1]

\* updateFloatingDrag from the selection loop on
highlightHovered(W, cands, hovered) ==
    IF hovered # 0
    THEN [W EXCEPT
             !.mgr.dropCandidates = cands,
             !.mgr.overlayZones = highlightZoneIndex(zonesOf(cands),
                                                     cands[hovered].overlayIndex),
             !.mgr.highlightedCandidateIndex = cands[hovered].overlayIndex]
    ELSE [W EXCEPT
             !.mgr.dropCandidates = cands,
             !.mgr.overlayZones = highlightZone(zonesOf(cands), "None")]

selectHovered(W, mousePos, nearestEdge, minDist, cands) ==
    highlightHovered(W, cands, hoveredCandidate(cands, 1, 0, mousePos, nearestEdge, minDist))

\* updateFloatingDrag from the root-edge candidate on
collectCandidates(W, mousePos, rootContainer, nearestEdge, minDist, movingWidget) ==
    selectHovered(
        W, mousePos, nearestEdge, minDist,
        addCandidates(
            <<DropCandidate(nearestEdge, NoHandle,
                            rootEdgeBounds(rootContainer, nearestEdge), 0)>>
            \o collectTabTargets(W.root, 1, rootContainer, <<>>, movingWidget, mousePos)
            \o collectSplitTargets(W.root, 1, FALSE, rootContainer, <<>>, movingWidget,
                                   mousePos),
            1, rootContainer, <<>>))

measureEdges(W, mousePos, rootContainer, d) ==
    collectCandidates(W, mousePos, rootContainer, nearestEdgeOf(d), minDistOf(d),
                      frameOf(W, W.mgr.draggedFloatingWindow).content)

expandedBy(rootContainer, edgeMargin) ==
    DFRect(FSub(rootContainer.x, edgeMargin), FSub(rootContainer.y, edgeMargin),
           FAdd(rootContainer.width, FMul(edgeMargin, F(2))),
           FAdd(rootContainer.height, FMul(edgeMargin, F(2))))

\* updateFloatingDrag once the window has followed the cursor and the old
\* candidates are gone
offerCandidates(W, mousePos, rootContainer) ==
    IF FLe(mainContainerBounds.width, FZero) \/ FLe(mainContainerBounds.height, FZero)
    THEN W
    ELSE IF FLe(rootContainer.width, F(1)) \/ FLe(rootContainer.height, F(1))
    THEN W
    ELSE IF ~contains(expandedBy(rootContainer,
                                 FMul(edgeDockActivateDistancePx, FQ(3, 2))),
                      mousePos)
    THEN W
    ELSE measureEdges(W, mousePos, rootContainer, edgeDistances(rootContainer, mousePos))

\* updateFloatingDrag once the layout is up to date
moveDraggedWindow(W, mousePos) ==
    offerCandidates(
        [setWindowBounds(W, W.mgr.draggedFloatingWindow, movedBounds(W, mousePos))
         EXCEPT !.mgr.overlayZones = <<>>,
                !.mgr.dropCandidates = <<>>,
                !.mgr.highlightedCandidateIndex = -1],
        mousePos, rootContainerOf(mainContainerBounds))

\* an updateFloatingDrag that collects candidates without a layout update
updateFloatingDragUnlaid(W, mousePos) ==
    IF W.mgr.draggedFloatingWindow = NoWindow THEN W
    ELSE IF ~hasWindow(W, W.mgr.draggedFloatingWindow) THEN cancelFloatingDrag(W)
    ELSE moveDraggedWindow(W, mousePos)

updateFloatingDrag(W, mousePos) ==
    IF W.mgr.draggedFloatingWindow = NoWindow THEN W
    ELSE IF ~hasWindow(W, W.mgr.draggedFloatingWindow) THEN cancelFloatingDrag(W)
    ELSE moveDraggedWindow(update(W, mainContainerBounds), mousePos)

\* a release priority without the root edge's precedence near the frame
releasePriorityInner(current, minDist) ==
    IF current.zone \in {"Tab", "Center"} THEN 5
    ELSE IF isEdgeZone(current.zone)
    THEN IF current.depth > 0 THEN 4 ELSE 3
    ELSE 0

\* the selection loop endFloatingDrag repeats; `best` is the candidate it
\* holds with bestArea, bestDepth and bestPriority
releasePriority(current, minDist) ==
    IF current.zone \in {"Tab", "Center"} THEN 5
    ELSE IF isEdgeZone(current.zone)
    THEN IF current.depth = 0 /\ FLe(minDist, F(20)) THEN 6
         ELSE IF current.depth > 0 THEN 4 ELSE 3
    ELSE 0

RECURSIVE releaseLoop(_, _, _, _, _, _)
releaseTakes(cands, i, best, mousePos, nearestEdge, minDist, area, priority) ==
    IF \/ best.index = 0
       \/ priority > best.priority
       \/ (priority = best.priority /\ cands[i].depth > best.depth)
       \/ (priority = best.priority /\ cands[i].depth = best.depth /\ FLt(area, best.area))
    THEN releaseLoop(cands, i + 1,
                     [index |-> i, area |-> area, depth |-> cands[i].depth,
                      priority |-> priority],
                     mousePos, nearestEdge, minDist)
    ELSE releaseLoop(cands, i + 1, best, mousePos, nearestEdge, minDist)

releaseLoop(cands, i, best, mousePos, nearestEdge, minDist) ==
    IF i > Len(cands) THEN best
    ELSE IF /\ ~contains(cands[i].bounds, mousePos)
            /\ ~(/\ cands[i].depth > 0
                 /\ isEdgeZone(cands[i].zone)
                 /\ cands[i].zone = nearestEdge
                 /\ FLe(minDist, edgeDockActivateDistancePx))
    THEN releaseLoop(cands, i + 1, best, mousePos, nearestEdge, minDist)
    ELSE releaseTakes(cands, i, best, mousePos, nearestEdge, minDist,
                      FMul(cands[i].bounds.width, cands[i].bounds.height),
                      releasePriority(cands[i], minDist))

\* the strict tab check that follows the loop
strictTab(cands, picked, mousePos) ==
    IF picked # 0 /\ cands[picked].zone = "Tab" /\ ~contains(cands[picked].bounds, mousePos)
    THEN 0 ELSE picked

releaseNearest(d) ==
    IF FLt(d.bottom, nearerOf(d.top, "Top", nearerOf(d.right, "Right", <<d.left, "Left">>))[1])
    THEN "Bottom"
    ELSE nearerOf(d.top, "Top", nearerOf(d.right, "Right", <<d.left, "Left">>))[2]

releaseAmong(cands, mousePos, d) ==
    strictTab(cands,
              releaseLoop(cands, 1,
                          [index |-> 0, area |-> FZero, depth |-> -1, priority |-> -1],
                          mousePos, releaseNearest(d), minDistOf(d)).index,
              mousePos)

releaseWithin(W, mousePos, rootContainer) ==
    releaseAmong(W.mgr.dropCandidates, mousePos,
                 edgeDistances(IF FLe(rootContainer.width, F(1))
                                  \/ FLe(rootContainer.height, F(1))
                               THEN mainContainerBounds ELSE rootContainer,
                               mousePos))

\* the position in dropCandidates_ of endFloatingDrag's `candidate`, 0 when
\* it is null
releaseCandidate(W, mousePos) ==
    releaseWithin(W, mousePos, rootContainerOf(mainContainerBounds))

\* a new Tab node that holds the new leaf in place of n
tabOverAlone(n, newLeaf) ==
    [Node EXCEPT !.type = "Tab", !.tabBarHeight = F(24),
                 !.children = <<newLeaf, newLeaf>>, !.activeTab = 1]

\* a new Tab node over n and the new leaf
tabOver(n, newLeaf) ==
    [Node EXCEPT !.type = "Tab", !.tabBarHeight = F(24),
                 !.children = <<n, newLeaf>>, !.activeTab = 1]

\* the new leaf pushed onto the Tab node at handle
tabAppend(root, handle, newLeaf) ==
    AssignAt(root, handle,
             [NodeAt(root, handle) EXCEPT
                 !.children = Append(@, newLeaf),
                 !.activeTab = Len(NodeAt(root, handle).children)])

\* what endFloatingDrag builds around the new leaf for a Tab/Center candidate
tabDock(root, targetNode, newLeaf) ==
    IF targetNode = NoHandle THEN tabOver(root, newLeaf)
    ELSE IF FindParentTabHandle(root, targetNode) # NoHandle
    THEN tabAppend(root, FindParentTabHandle(root, targetNode), newLeaf)
    ELSE IF FindNodeHandle(root, targetNode) = NoHandle THEN tabOver(root, newLeaf)
    ELSE IF NodeAt(root, targetNode).type = "Tab" THEN tabAppend(root, targetNode, newLeaf)
    ELSE IF NodeAt(root, targetNode).type = "Widget"
    THEN AssignAt(root, targetNode,
                  tabOver([Node EXCEPT !.widget = NodeAt(root, targetNode).widget],
                          newLeaf))
    ELSE AssignAt(root, targetNode, tabOver(NodeAt(root, targetNode), newLeaf))

\* an edge Split that puts the existing subtree first for every zone
edgeSplitBehind(zone, existing, newLeaf) ==
    [Node EXCEPT !.type = "Split", !.vertical = (zone \in {"Left", "Right"}),
                 !.minFirstSize = F(120), !.minSecondSize = F(120),
                 !.first = existing, !.second = newLeaf, !.ratio = FQ(3, 4)]

edgeSplit(zone, existing, newLeaf) ==
    IF zone \in {"Left", "Top"}
    THEN [Node EXCEPT !.type = "Split", !.vertical = (zone \in {"Left", "Right"}),
                      !.minFirstSize = F(120), !.minSecondSize = F(120),
                      !.first = newLeaf, !.second = existing, !.ratio = FQ(1, 4)]
    ELSE [Node EXCEPT !.type = "Split", !.vertical = (zone \in {"Left", "Right"}),
                      !.minFirstSize = F(120), !.minSecondSize = F(120),
                      !.first = existing, !.second = newLeaf, !.ratio = FQ(3, 4)]

edgeDockAt(root, zone, handle, newLeaf) ==
    AssignAt(root, handle, edgeSplit(zone, NodeAt(root, handle), newLeaf))

\* an edge dock that always splits the root
edgeDockRoot(root, zone, targetNode, newLeaf) ==
    edgeDockAt(root, zone, <<>>, newLeaf)

\* what endFloatingDrag builds around the new leaf for an edge candidate
edgeDock(root, zone, targetNode, newLeaf) ==
    edgeDockAt(root, zone,
               IF targetNode = NoHandle \/ FindNodeHandle(root, targetNode) = NoHandle
               THEN <<>> ELSE targetNode,
               newLeaf)

\* endFloatingDrag from destroyWindow(sourceWindow) on
dockInto(W, candidate, newLeaf) ==
    cancelFloatingDrag(
        update([W EXCEPT !.root =
                   IF W.root = Null THEN newLeaf
                   ELSE NormalizeNode(
                            IF candidate.zone \in {"Center", "Tab"}
                            THEN tabDock(W.root, candidate.target, newLeaf)
                            ELSE edgeDock(W.root, candidate.zone, candidate.target,
                                          newLeaf))],
               mainContainerBounds))

\* endFloatingDrag's three returns that leave the window floating
stayFloating(W, mousePos) ==
    cancelFloatingDrag(
        setWindowBounds(W, W.mgr.draggedFloatingWindow, movedBounds(W, mousePos)))

release(W, mousePos, picked, widget) ==
    IF widget = NoWidget THEN cancelFloatingDrag(W)
    ELSE IF W.mgr.suppressDockOnNextDrop /\ picked = 0 THEN stayFloating(W, mousePos)
    ELSE IF picked = 0 THEN stayFloating(W, mousePos)
    ELSE dockInto(destroyWindow(W, W.mgr.draggedFloatingWindow),
                  W.mgr.dropCandidates[picked], [Node EXCEPT !.widget = widget])

\* endFloatingDrag once updateFloatingDrag has run
releaseAt(W, mousePos) ==
    release(W, mousePos, releaseCandidate(W, mousePos),
            frameOf(W, W.mgr.draggedFloatingWindow).content)

\* an endFloatingDrag that keeps the drag when its window is gone
endFloatingDragHeld(W, mousePos) ==
    IF W.mgr.draggedFloatingWindow = NoWindow THEN W
    ELSE IF ~hasWindow(W, W.mgr.draggedFloatingWindow) THEN W
    ELSE releaseAt(updateFloatingDrag(W, mousePos), mousePos)

endFloatingDrag(W, mousePos) ==
    IF W.mgr.draggedFloatingWindow = NoWindow THEN W
    ELSE IF ~hasWindow(W, W.mgr.draggedFloatingWindow) THEN cancelFloatingDrag(W)
    ELSE releaseAt(updateFloatingDrag(W, mousePos), mousePos)

\* ------------------------------------------------------------------------
\* DockSplitter (dock_splitter.h, dock_splitter.cpp).  A DockLayout::Node* held
\* by the splitter controller is the node's address; it dangles once no node
\* of the tree has that address.
\* ------------------------------------------------------------------------
NoNode == 0
SPLITTER_THICKNESS == F(4)
SPLITTER_HOVER_THICKNESS == F(8)

\* stale: the call dereferenced a Node* whose node was destroyed; halted: the
\* process did not survive that
DockSplitter ==
    [splitters |-> <<>>, activeNode |-> NoNode, hoveredNode |-> NoNode,
     activeVertical |-> TRUE, activeParentBounds |-> ZeroRect,
     activeGrabOffset |-> FZero, stale |-> FALSE, halted |-> FALSE]

Splitter(node, bounds, parentBounds, activeNode) ==
    [vertical |-> node.vertical, position |-> node.ratio, bounds |-> bounds,
     parentBounds |-> parentBounds, node |-> node.addr,
     dragging |-> (activeNode # NoNode /\ activeNode = node.addr)]

\* where the seam of a Split with this ratio lies along an extent
splitStart(start, extent, ratio) ==
    FAdd(start, FMul(FMax(FZero, FSub(extent, SPLITTER_THICKNESS)),
                     FClamp(ratio, FZero, F(1))))

RECURSIVE collectSplitters(_, _, _)
collectVertical(node, bounds, activeNode, splitX, secondX) ==
    collectSplitters(node.first,
                     DFRect(bounds.x, bounds.y, FMax(FZero, FSub(splitX, bounds.x)),
                            bounds.height),
                     activeNode)
    \o collectSplitters(node.second,
                        DFRect(secondX, bounds.y,
                               FMax(FZero, FSub(FAdd(bounds.x, bounds.width), secondX)),
                               bounds.height),
                        activeNode)
    \o <<Splitter(node, DFRect(splitX, bounds.y, SPLITTER_THICKNESS, bounds.height),
                  bounds, activeNode)>>

collectHorizontal(node, bounds, activeNode, splitY, secondY) ==
    collectSplitters(node.first,
                     DFRect(bounds.x, bounds.y, bounds.width,
                            FMax(FZero, FSub(splitY, bounds.y))),
                     activeNode)
    \o collectSplitters(node.second,
                        DFRect(bounds.x, secondY, bounds.width,
                               FMax(FZero, FSub(FAdd(bounds.y, bounds.height), secondY))),
                        activeNode)
    \o <<Splitter(node, DFRect(bounds.x, splitY, bounds.width, SPLITTER_THICKNESS),
                  bounds, activeNode)>>

collectSplitters(node, bounds, activeNode) ==
    IF node = Null THEN <<>>
    ELSE IF node.type # "Split" THEN <<>>
    ELSE IF node.vertical
    THEN collectVertical(node, bounds, activeNode,
                         splitStart(bounds.x, bounds.width, node.ratio),
                         FAdd(splitStart(bounds.x, bounds.width, node.ratio),
                              SPLITTER_THICKNESS))
    ELSE collectHorizontal(node, bounds, activeNode,
                           splitStart(bounds.y, bounds.height, node.ratio),
                           FAdd(splitStart(bounds.y, bounds.height, node.ratio),
                                SPLITTER_THICKNESS))

\* is a splitter of the list on this node
listed(splitters, node) == \E i \in 1..Len(splitters) : splitters[i].node = node

\* an updateSplitters that keeps the drag and hover state
dropStaleNot(S) == S

dropStale(S) ==
    [S EXCEPT !.activeNode = IF @ # NoNode /\ ~listed(S.splitters, @) THEN NoNode ELSE @,
              !.activeGrabOffset =
                  IF S.activeNode # NoNode /\ ~listed(S.splitters, S.activeNode)
                  THEN FZero ELSE @,
              !.hoveredNode = IF @ # NoNode /\ ~listed(S.splitters, @) THEN NoNode ELSE @]

\* DockSplitter::updateSplitters
updateSplitters(S, root, containerBounds) ==
    dropStale([S EXCEPT !.splitters = collectSplitters(root, containerBounds, S.activeNode),
                        !.stale = FALSE])

expanded(s) ==
    IF s.vertical
    THEN DFRect(FSub(s.bounds.x,
                     FMul(FSub(SPLITTER_HOVER_THICKNESS, SPLITTER_THICKNESS), FQ(1, 2))),
                s.bounds.y, SPLITTER_HOVER_THICKNESS, s.bounds.height)
    ELSE DFRect(s.bounds.x,
                FSub(s.bounds.y,
                     FMul(FSub(SPLITTER_HOVER_THICKNESS, SPLITTER_THICKNESS), FQ(1, 2))),
                s.bounds.width, SPLITTER_HOVER_THICKNESS)

\* a splitterAtPoint that returns the last splitter hit
splitterAtPointLast(S, p) ==
    IF \E i \in 1..Len(S.splitters) : contains(expanded(S.splitters[i]), p)
    THEN CHOOSE i \in 1..Len(S.splitters) :
             /\ contains(expanded(S.splitters[i]), p)
             /\ \A j \in (i + 1)..Len(S.splitters) : ~contains(expanded(S.splitters[j]), p)
    ELSE 0

\* DockSplitter::splitterAtPoint: the index of the first splitter whose
\* widened lane holds p, 0 for nullptr
splitterAtPoint(S, p) ==
    IF \E i \in 1..Len(S.splitters) : contains(expanded(S.splitters[i]), p)
    THEN CHOOSE i \in 1..Len(S.splitters) :
             /\ contains(expanded(S.splitters[i]), p)
             /\ \A j \in 1..(i - 1) : ~contains(expanded(S.splitters[j]), p)
    ELSE 0

\* the paths of the Split nodes of a tree
RECURSIVE splitPaths(_, _)
splitPaths(node, path) ==
    IF node = Null THEN {}
    ELSE CASE node.type = "Split" ->
                  {path} \cup splitPaths(node.first, Append(path, 1))
                         \cup splitPaths(node.second, Append(path, 2))
           [] node.type = "Tab" ->
                  UNION {splitPaths(node.children[i], Append(path, 2 + i)) :
                             i \in 1..Len(node.children)}
           [] OTHER -> {}

\* the node a Node* points at: its path, NoHandle when the pointer dangles
pointee(root, node) ==
    IF \E path \in splitPaths(root, <<>>) : NodeAt(root, path).addr = node
    THEN CHOOSE path \in splitPaths(root, <<>>) : NodeAt(root, path).addr = node
    ELSE NoHandle

grabbed(S, splitter, p, ratio) ==
    [S EXCEPT !.activeGrabOffset =
                  IF splitter.vertical
                  THEN FSub(p.x, splitStart(splitter.parentBounds.x,
                                            splitter.parentBounds.width, ratio))
                  ELSE FSub(p.y, splitStart(splitter.parentBounds.y,
                                            splitter.parentBounds.height, ratio))]

startDragOn(S, root, index, p, handle) ==
    IF handle = NoHandle
    THEN [S EXCEPT !.activeNode = S.splitters[index].node,
                   !.activeVertical = S.splitters[index].vertical,
                   !.activeParentBounds = S.splitters[index].parentBounds,
                   !.stale = TRUE]
    ELSE grabbed([S EXCEPT !.activeNode = S.splitters[index].node,
                           !.activeVertical = S.splitters[index].vertical,
                           !.activeParentBounds = S.splitters[index].parentBounds,
                           !.splitters[index].dragging = TRUE,
                           !.stale = FALSE],
                 S.splitters[index], p, NodeAt(root, handle).ratio)

\* DockSplitter::startDrag, with the Splitter* that splitterAtPoint(p) gives
splitterStartDrag(S, root, index, p) ==
    IF index = 0 THEN [S EXCEPT !.stale = FALSE]
    ELSE startDragOn(S, root, index, p, pointee(root, S.splitters[index].node))

\* the active splitter's orientation and parent bounds, taken again from the
\* list when it has the active node
refreshed(S) ==
    IF listed(S.splitters, S.activeNode)
    THEN [S EXCEPT
             !.activeVertical =
                 S.splitters[CHOOSE i \in 1..Len(S.splitters) :
                                 /\ S.splitters[i].node = S.activeNode
                                 /\ \A j \in 1..(i - 1) :
                                        S.splitters[j].node # S.activeNode].vertical,
             !.activeParentBounds =
                 S.splitters[CHOOSE i \in 1..Len(S.splitters) :
                                 /\ S.splitters[i].node = S.activeNode
                                 /\ \A j \in 1..(i - 1) :
                                        S.splitters[j].node # S.activeNode].parentBounds]
    ELSE S

\* an updateDrag that moves the seam itself: the first child takes firstSize
dragWrittenMoved(node, available, firstSize) ==
    [node EXCEPT !.ratio = IF FGt(available, FZero) THEN FDiv(firstSize, available)
                           ELSE FQ(1, 2),
                 !.first.bounds = IF node.vertical THEN [@ EXCEPT !.width = firstSize]
                                  ELSE [@ EXCEPT !.height = firstSize]]

\* the ratio and fixedSize updateDrag writes onto the active node
dragWritten(node, available, firstSize) ==
    [node EXCEPT !.ratio = IF FGt(available, FZero) THEN FDiv(firstSize, available)
                           ELSE FQ(1, 2),
                 !.fixedSize = IF node.splitSizing = "FixedFirst" THEN firstSize
                               ELSE IF node.splitSizing = "FixedSecond"
                               THEN FSub(available, firstSize)
                               ELSE @]

dragClamped(node, available, firstSize, minFirst, maxFirst) ==
    dragWritten(node, available,
                FClamp(firstSize, minFirst,
                       IF FLt(maxFirst, minFirst) THEN minFirst ELSE maxFirst))

dragRequested(S, node, p, available, minFirst, minSecond) ==
    dragClamped(node, available,
                IF S.activeVertical
                THEN FSub(FSub(p.x, S.activeGrabOffset), S.activeParentBounds.x)
                ELSE FSub(FSub(p.y, S.activeGrabOffset), S.activeParentBounds.y),
                minFirst, FMax(FZero, FSub(available, minSecond)))

dragCompressed(S, node, p, available, minFirst, minSecond, minSum) ==
    IF FGt(minSum, available)
    THEN dragRequested(S, node, p, available,
                       FMul(minFirst, FDiv(available, minSum)),
                       FMul(minSecond, FDiv(available, minSum)))
    ELSE dragRequested(S, node, p, available, minFirst, minSecond)

dragNode(S, node, p, available) ==
    dragCompressed(S, node, p, available,
                   FClamp(node.minFirstSize, FZero, available),
                   FClamp(node.minSecondSize, FZero, available),
                   FAdd(FClamp(node.minFirstSize, FZero, available),
                        FClamp(node.minSecondSize, FZero, available)))

dragAvailable(S) ==
    FMax(FZero, FSub(IF S.activeVertical THEN S.activeParentBounds.width
                     ELSE S.activeParentBounds.height,
                     SPLITTER_THICKNESS))

updateDragOn(S, root, p, handle) ==
    IF FLe(dragAvailable(S), FZero) THEN [splitter |-> [S EXCEPT !.stale = FALSE], root |-> root]
    ELSE IF handle = NoHandle THEN [splitter |-> [S EXCEPT !.stale = TRUE], root |-> root]
    ELSE [splitter |-> [S EXCEPT !.stale = FALSE],
          root |-> AssignAt(root, handle,
                            dragNode(S, NodeAt(root, handle), p, dragAvailable(S)))]

\* DockSplitter::updateDrag: the controller and the tree after it
splitterUpdateDrag(S, root, p) ==
    IF S.activeNode = NoNode THEN [splitter |-> [S EXCEPT !.stale = FALSE], root |-> root]
    ELSE updateDragOn(refreshed(S), root, p, pointee(root, S.activeNode))

\* DockSplitter::endDrag
splitterEndDrag(S) ==
    [S EXCEPT !.activeNode = NoNode, !.activeGrabOffset = FZero, !.stale = FALSE]

isDragging(S) == S.activeNode # NoNode

\* ------------------------------------------------------------------------
\* DockManager::handleEvent (dock_framework.cpp): the state after the event
\* and whether the event was handled
\* ------------------------------------------------------------------------
handleFloating(W, type, pos) ==
    CASE type = "MouseMove" -> [world |-> updateFloatingDrag(W, pos), handled |-> TRUE]
      [] type = "MouseUp" -> [world |-> endFloatingDrag(W, pos), handled |-> TRUE]
      [] OTHER -> [world |-> W, handled |-> FALSE]

handleDocked(W, type, pos, id) ==
    CASE type = "MouseMove" -> [world |-> updateDrag(W, pos, id), handled |-> TRUE]
      [] type = "MouseUp" -> [world |-> endDrag(W), handled |-> TRUE]
      [] OTHER -> [world |-> W, handled |-> FALSE]

handleEvent(W, type, pos, id) ==
    IF W.mgr.draggedFloatingWindow # NoWindow THEN handleFloating(W, type, pos)
    ELSE IF ~W.mgr.drag.active THEN [world |-> W, handled |-> FALSE]
    ELSE handleDocked(W, type, pos, id)

\* ------------------------------------------------------------------------
\* The orchestrator's state machine
\* ------------------------------------------------------------------------
MaxSteps == 3
MaxWindows == 2

VARIABLES root, panels, windows, mgr, splitter, steps, last
vars == <<root, panels, windows, mgr, splitter, steps, last>>

World == [root |-> root, panels |-> panels, windows |-> windows, mgr |-> mgr]

Leaf(w) == [Node EXCEPT !.widget = w]
SplitNode(vertical, first, second) ==
    [Node EXCEPT !.type = "Split", !.vertical = vertical, !.first = first,
                 !.second = second]
TabNode(children) == [Node EXCEPT !.type = "Tab", !.children = children]

\* layouts an application builds before its first frame
StartTrees ==
    { SplitNode(TRUE, Leaf("A"), SplitNode(FALSE, Leaf("B"), Leaf("C"))),
      SplitNode(TRUE, Leaf("A"), TabNode(<<Leaf("B"), Leaf("C")>>)),
      TabNode(<<SplitNode(TRUE, TabNode(<<Leaf("A"), Leaf("B")>>), Leaf("C")),
                Leaf("D")>>),
      Leaf("A") }

\* pointer positions: inside the header hint of a panel filling the left
\* half, 40 px further, inside that of a panel filling the whole width,
\* inside that of a panel filling the right half, on the lower rim of a tab
\* strip, on the container's left edge, near a panel's right rim, in the
\* middle of a panel, and outside
Points ==
    { DFPoint(F(160), F(18)), DFPoint(F(200), F(18)), DFPoint(F(320), F(18)),
      DFPoint(F(480), F(18)),
      DFPoint(F(160), F(23)), DFPoint(F(2), F(240)), DFPoint(F(300), F(240)),
      DFPoint(F(160), F(240)), DFPoint(F(900), F(600)) }
PressPoint == DFPoint(F(160), F(18))

NoOp == [op |-> "none", widget |-> NoWidget, pos |-> ZeroPoint, window |-> NoWindow,
         container |-> ZeroRect, id |-> NoWindow, pre |-> <<>>]

Started(W) ==
    /\ root = W.root
    /\ panels = W.panels
    /\ windows = W.windows
    /\ mgr = W.mgr
    /\ splitter = DockSplitter
    /\ steps = 0
    /\ last = NoOp

Init ==
    \E t \in StartTrees :
        Started(update([root |-> t, panels |-> [p \in Panels |-> DockWidget],
                        windows |-> <<>>, mgr |-> DockManager],
                       mainContainerBounds))

\* the handler's result becomes the state; `last` remembers the call and the
\* state it was made in
Becomes(W, call) ==
    /\ steps < MaxSteps
    /\ steps' = steps + 1
    /\ root' = W.root
    /\ panels' = W.panels
    /\ windows' = W.windows
    /\ mgr' = W.mgr
    /\ splitter' = splitter
    /\ last' = [call EXCEPT !.pre = World]

\* the addresses a new WindowFrame can get: one never used, or the one a
\* destroyed frame had, which draggedFloatingWindow_ may still hold
FreshIds ==
    {i \in 1..MaxWindows :
        /\ i \notin windowIds(World)
        /\ \/ i = mgr.draggedFloatingWindow
           \/ \A j \in 1..(i - 1) : j \in windowIds(World)}

StartDrag ==
    \E w \in Panels :
        Becomes(startDrag(World, w, PressPoint),
                [NoOp EXCEPT !.op = "startDrag", !.widget = w, !.pos = PressPoint])

UpdateDrag ==
    \E pos \in Points, id \in FreshIds :
        Becomes(updateDrag(World, pos, id),
                [NoOp EXCEPT !.op = "updateDrag", !.pos = pos, !.id = id])

EndDrag == Becomes(endDrag(World), [NoOp EXCEPT !.op = "endDrag"])

CloseWidget ==
    \E w \in Panels :
        Becomes(closeWidget(World, w), [NoOp EXCEPT !.op = "closeWidget", !.widget = w])

CloseDockedWidget ==
    \E w \in Panels :
        Becomes(closeDockedWidget(World, w),
                [NoOp EXCEPT !.op = "closeDockedWidget", !.widget = w])

StartUndockDrag ==
    \E w \in Panels, id \in FreshIds :
        Becomes(startUndockDrag(World, w, PressPoint, id),
                [NoOp EXCEPT !.op = "startUndockDrag", !.widget = w,
                             !.pos = PressPoint, !.id = id])

StartFloatingDrag ==
    \E window \in windowIds(World) :
        Becomes(startFloatingDrag(World, window, PressPoint),
                [NoOp EXCEPT !.op = "startFloatingDrag", !.window = window,
                             !.pos = PressPoint])

UpdateFloatingDrag ==
    \E pos \in Points :
        Becomes(updateFloatingDrag(World, pos),
                [NoOp EXCEPT !.op = "updateFloatingDrag", !.pos = pos])

EndFloatingDrag ==
    \E pos \in Points :
        Becomes(endFloatingDrag(World, pos),
                [NoOp EXCEPT !.op = "endFloatingDrag", !.pos = pos])

CancelFloatingDrag ==
    Becomes(cancelFloatingDrag(World), [NoOp EXCEPT !.op = "cancelFloatingDrag"])

SuppressDock ==
    Becomes(suppressDockForActiveFloatingDrag(World),
            [NoOp EXCEPT !.op = "suppressDockForActiveFloatingDrag"])

Next ==
    \/ StartDrag
    \/ UpdateDrag
    \/ EndDrag
    \/ CloseWidget
    \/ CloseDockedWidget
    \/ StartUndockDrag
    \/ StartFloatingDrag
    \/ UpdateFloatingDrag
    \/ EndFloatingDrag
    \/ CancelFloatingDrag
    \/ SuppressDock

Spec == Init /\ [][Next]_vars

\* ------------------------------------------------------------------------
\* DockLayout::update on its own: any tree a caller can hand to setRoot, laid
\* out in a container again and again
\* ------------------------------------------------------------------------
RawTrees ==
    { [SplitNode(TRUE, Leaf("A"), Leaf("B")) EXCEPT !.ratio = FQ(51, 100)],
      [SplitNode(FALSE, Leaf("B"), Leaf("D")) EXCEPT !.ratio = FQ(1, 3)],
      SplitNode(FALSE, Leaf("A"), Null),
      TabNode(<<Leaf("A")>>),
      [TabNode(<<TabNode(<<Leaf("A"), Leaf("B")>>), Leaf("C")>>) EXCEPT !.activeTab = 7],
      [TabNode(<<Null, Leaf(NoWidget), Leaf("B"), TabNode(<<>>), Leaf("C")>>)
          EXCEPT !.activeTab = -3],
      [SplitNode(TRUE, Leaf("A"), Leaf("C")) EXCEPT !.splitSizing = "FixedFirst"],
      [SplitNode(FALSE, Leaf("C"), Leaf("D")) EXCEPT !.splitSizing = "FixedSecond"],
      [SplitNode(TRUE, Leaf("A"), SplitNode(FALSE, Leaf("B"), Leaf("D")))
          EXCEPT !.ratio = FQ(3, 2)],
      [SplitNode(TRUE, Leaf("B"), Leaf("D")) EXCEPT !.ratio = FQ(-1, 5)],
      Leaf(NoWidget),
      SplitNode(TRUE, TabNode(<<Leaf("A")>>), SplitNode(FALSE, Null, Null)),
      TabNode(<<SplitNode(TRUE, TabNode(<<Leaf("A"), Leaf("B")>>), Leaf("C")),
                Leaf("D")>>),
      TabNode(<<SplitNode(TRUE, TabNode(<<Leaf("A"), Leaf("B")>>), Leaf(NoWidget)),
                Leaf("C")>>) }

Containers ==
    { mainContainerBounds,
      DFRect(FZero, FZero, F(242), F(300)),
      DFRect(FZero, FZero, F(100), F(80)),
      DFRect(F(10), F(20), F(301), F(203)),
      DFRect(FZero, FZero, FZero, FZero),
      DFRect(F(5), F(5), F(-10), F(50)),
      DFRect(FZero, FZero, F(400), F(380)) }

InitLayout ==
    \E t \in RawTrees :
        Started([root |-> t, panels |-> [p \in Panels |-> DockWidget],
                 windows |-> <<>>, mgr |-> DockManager])

Update ==
    \E containerBounds \in Containers :
        Becomes(update(World, containerBounds),
                [NoOp EXCEPT !.op = "update", !.container = containerBounds])

SpecLayout == InitLayout /\ [][Update]_vars

\* ------------------------------------------------------------------------
\* What the properties below speak of
\* ------------------------------------------------------------------------
\* a tree without bounds and sizes: node kinds, panels and Split axes
RECURSIVE Structure(_)
RECURSIVE StructureOfEach(_, _)
StructureOfEach(children, i) ==
    IF i > Len(children) THEN <<>>
    ELSE <<Structure(children[i])>> \o StructureOfEach(children, i + 1)

Structure(node) ==
    IF node = Null THEN Null
    ELSE CASE node.type = "Widget" -> [type |-> "Widget", widget |-> node.widget]
           [] node.type = "Tab" ->
                  [type |-> "Tab", children |-> StructureOfEach(node.children, 1)]
           [] OTHER ->
                  [type |-> "Split", vertical |-> node.vertical,
                   first |-> Structure(node.first), second |-> Structure(node.second)]

\* a tree's structure with every node's bounds and every Split's ratio and
\* fixedSize
RECURSIVE Geometry(_)
RECURSIVE GeometryOfEach(_, _)
GeometryOfEach(children, i) ==
    IF i > Len(children) THEN <<>>
    ELSE <<Geometry(children[i])>> \o GeometryOfEach(children, i + 1)

Geometry(node) ==
    IF node = Null THEN Null
    ELSE CASE node.type = "Widget" ->
                  [type |-> "Widget", widget |-> node.widget, bounds |-> node.bounds]
           [] node.type = "Tab" ->
                  [type |-> "Tab", bounds |-> node.bounds,
                   children |-> GeometryOfEach(node.children, 1)]
           [] OTHER ->
                  [type |-> "Split", vertical |-> node.vertical, bounds |-> node.bounds,
                   ratio |-> node.ratio, fixedSize |-> node.fixedSize,
                   first |-> Geometry(node.first), second |-> Geometry(node.second)]

\* the panels of the Widget leaves, left to right
RECURSIVE LeafPanels(_)
RECURSIVE LeafPanelsOfEach(_, _)
LeafPanelsOfEach(children, i) ==
    IF i > Len(children) THEN <<>>
    ELSE LeafPanels(children[i]) \o LeafPanelsOfEach(children, i + 1)

LeafPanels(node) ==
    IF node = Null THEN <<>>
    ELSE CASE node.type = "Widget" ->
                  IF node.widget # NoWidget THEN <<node.widget>> ELSE <<>>
           [] node.type = "Tab" -> LeafPanelsOfEach(node.children, 1)
           [] OTHER -> LeafPanels(node.first) \o LeafPanels(node.second)

Range(s) == {s[i] : i \in 1..Len(s)}

\* ------------------------------------------------------------------------
\* C2
\* ------------------------------------------------------------------------
RECURSIVE WellFormed(_)
WellFormed(node) ==
    IF node = Null THEN FALSE
    ELSE CASE node.type = "Split" -> WellFormed(node.first) /\ WellFormed(node.second)
           [] node.type = "Tab" ->
                  /\ Len(node.children) >= 2
                  /\ node.activeTab \in 0..(Len(node.children) - 1)
                  /\ \A i \in 1..Len(node.children) :
                        /\ WellFormed(node.children[i])
                        /\ node.children[i].type # "Tab"
           [] node.type = "Widget" -> node.widget # NoWidget
           [] OTHER -> FALSE

\* C2: when update() returns with a non-null root, every Split has both
\* children, every Tab has at least two children none of which is a Tab and
\* an activeTab that indexes one of them, and every Widget leaf has a panel,
\* whatever the tree was before
C2_UpdateNormalizes ==
    (last.op = "update" /\ root # Null) => WellFormed(root)

\* an update that was handed a Tab nested in a Tab and kept a Tab
C2_NestedTabUpdated ==
    /\ last.op = "update"
    /\ root # Null
    /\ root.type = "Tab"
    /\ last.pre.root.type = "Tab"
    /\ \E i \in 1..Len(last.pre.root.children) :
          /\ last.pre.root.children[i] # Null
          /\ last.pre.root.children[i].type = "Tab"
          /\ Len(last.pre.root.children[i].children) >= 2

\* ------------------------------------------------------------------------
\* C9
\* ------------------------------------------------------------------------
\* C9: update(container) right after update(container) leaves every node's
\* bounds, every Split's ratio and fixedSize and the structure as they are
C9_UpdateIdempotent ==
    last.op = "update" => Geometry(update(World, last.container).root) = Geometry(root)

\* ------------------------------------------------------------------------
\* C10
\* ------------------------------------------------------------------------
Within(inner, outer) ==
    /\ FGe(inner.x, FSub(outer.x, F(1)))
    /\ FGe(inner.y, FSub(outer.y, F(1)))
    /\ FLe(FAdd(inner.x, inner.width), FAdd(FAdd(outer.x, outer.width), F(1)))
    /\ FLe(FAdd(inner.y, inner.height), FAdd(FAdd(outer.y, outer.height), F(1)))

RECURSIVE Nested(_)
Nested(node) ==
    CASE node.type = "Split" ->
            /\ Within(node.first.bounds, node.bounds)
            /\ Within(node.second.bounds, node.bounds)
            /\ Nested(node.first)
            /\ Nested(node.second)
      [] node.type = "Tab" ->
            \A i \in 1..Len(node.children) :
                /\ Within(node.children[i].bounds, node.bounds)
                /\ Nested(node.children[i])
      [] OTHER -> TRUE

\* C10: after update(container) with a container of non-negative width and
\* height, the root's bounds are the container and every node's bounds lie
\* within its parent's, to 1px
C10_BoundsNested ==
    (/\ last.op = "update"
     /\ root # Null
     /\ FGe(last.container.width, FZero)
     /\ FGe(last.container.height, FZero))
    => (root.bounds = last.container /\ Nested(root))

\* an update of a Split with a fixed first size larger than the container
C10_FixedSplitSqueezed ==
    /\ last.op = "update"
    /\ root # Null
    /\ root.type = "Split"
    /\ root.splitSizing = "FixedFirst"
    /\ last.container.width = F(100)
    /\ FGt(last.pre.root.fixedSize, last.container.width)

\* ------------------------------------------------------------------------
\* The splitter controller beside the layout: DockSplitter's calls, with
\* DockLayout::update and DockManager::closeDockedWidget changing the tree
\* ------------------------------------------------------------------------
At(addr, node) == [node EXCEPT !.addr = addr]

SplitterTrees ==
    { At(1, SplitNode(TRUE, Leaf("A"), At(2, SplitNode(FALSE, Leaf("B"), Leaf("D"))))),
      At(1, [SplitNode(TRUE, Leaf("A"), Leaf("C")) EXCEPT !.splitSizing = "FixedFirst"]),
      At(1, [SplitNode(FALSE, Leaf("C"), Leaf("D")) EXCEPT !.splitSizing = "FixedSecond"]),
      At(1, [SplitNode(TRUE, Leaf("B"), Leaf("D")) EXCEPT !.ratio = FQ(3, 10)]) }

SplitterContainers == { mainContainerBounds, DFRect(FZero, FZero, F(1280), F(760)) }

\* pointer positions: on the seams the trees have in the two containers, in
\* the middle of a pane, where the lanes of an outer and an inner seam
\* overlap, and 500 px beyond the containers' ends
SplitterPoints ==
    { DFPoint(F(320), F(240)), DFPoint(F(640), F(380)), DFPoint(F(480), F(240)),
      DFPoint(F(900), F(380)), DFPoint(F(220), F(240)), DFPoint(F(320), F(260)),
      DFPoint(F(320), F(540)), DFPoint(F(192), F(240)), DFPoint(F(384), F(240)),
      DFPoint(F(400), F(300)), DFPoint(F(323), F(240)),
      DFPoint(F(-500), F(-500)), DFPoint(F(1140), F(980)), DFPoint(F(1780), F(1260)) }

\* refreshLayoutState at start-up: the layout is updated and the splitters
\* are collected
InitSplitter ==
    \E t \in SplitterTrees, containerBounds \in SplitterContainers :
        /\ root = update([root |-> t, panels |-> [p \in Panels |-> DockWidget],
                          windows |-> <<>>, mgr |-> DockManager], containerBounds).root
        /\ panels = update([root |-> t, panels |-> [p \in Panels |-> DockWidget],
                            windows |-> <<>>, mgr |-> DockManager], containerBounds).panels
        /\ windows = <<>>
        /\ mgr = DockManager
        /\ splitter = updateSplitters(DockSplitter, root, containerBounds)
        /\ steps = 0
        /\ last = NoOp

WithSplitter == [root |-> root, panels |-> panels, windows |-> windows, mgr |-> mgr,
                 splitter |-> splitter]

SplitterBecomes(S, node, call) ==
    /\ steps < MaxSteps
    /\ ~splitter.halted
    /\ steps' = steps + 1
    /\ root' = node
    /\ splitter' = S
    /\ UNCHANGED <<panels, windows, mgr>>
    /\ last' = [call EXCEPT !.pre = WithSplitter]

\* dereferencing a dangling Node* is undefined: the process goes on, or not
Survives(S) == IF S.stale THEN BOOLEAN ELSE {FALSE}

UpdateSplitters ==
    \E containerBounds \in SplitterContainers :
        SplitterBecomes(updateSplitters(splitter, root, containerBounds), root,
                        [NoOp EXCEPT !.op = "updateSplitters",
                                     !.container = containerBounds])

SplitterStartDrag ==
    \E p \in SplitterPoints :
        \E halted \in Survives(splitterStartDrag(splitter, root,
                                                 splitterAtPoint(splitter, p), p)) :
            SplitterBecomes([splitterStartDrag(splitter, root,
                                               splitterAtPoint(splitter, p), p)
                                 EXCEPT !.halted = halted],
                            root,
                            [NoOp EXCEPT !.op = "splitterStartDrag", !.pos = p])

SplitterUpdateDrag ==
    \E p \in SplitterPoints :
        \E halted \in Survives(splitterUpdateDrag(splitter, root, p).splitter) :
            SplitterBecomes([splitterUpdateDrag(splitter, root, p).splitter
                                 EXCEPT !.halted = halted],
                            splitterUpdateDrag(splitter, root, p).root,
                            [NoOp EXCEPT !.op = "splitterUpdateDrag", !.pos = p])

SplitterEndDrag ==
    SplitterBecomes(splitterEndDrag(splitter), root,
                    [NoOp EXCEPT !.op = "splitterEndDrag"])

LayoutUpdate == ~splitter.halted /\ Update

PanelClosed == ~splitter.halted /\ CloseDockedWidget

NextSplitter ==
    \/ UpdateSplitters
    \/ SplitterStartDrag
    \/ SplitterUpdateDrag
    \/ SplitterEndDrag
    \/ LayoutUpdate
    \/ PanelClosed

SpecSplitter == InitSplitter /\ [][NextSplitter]_vars

\* ------------------------------------------------------------------------
\* Drop candidates under the pointer: a panel is pulled out of the layout and
\* its window is moved and released over it.  Panel E is 60 px wide.
\* ------------------------------------------------------------------------
HoverPanels == Panels \cup {"E"}

HoverTrees ==
    { [SplitNode(TRUE, Leaf("E"), SplitNode(FALSE, Leaf("A"), Leaf("D")))
          EXCEPT !.splitSizing = "FixedFirst", !.fixedSize = F(60)],
      SplitNode(TRUE, SplitNode(FALSE, Leaf("A"), Leaf("D")),
                TabNode(<<Leaf("B"), Leaf("C")>>)),
      SplitNode(TRUE, Leaf("A"),
                SplitNode(FALSE, Leaf("B"), SplitNode(TRUE, Leaf("C"), Leaf("D")))) }

\* pointer positions: in the left edge strip and a narrow panel's header
\* hint, outside the left edge, 6 px inside it, in the left edge strip, on
\* the seam beside the narrow panel, on the middle seam, in the header hints
\* of the right and of the left half, in the middle of a panel, in the right
\* and the top edge strip, and far outside
HoverPoints ==
    { DFPoint(FQ(13, 4), F(18)), DFPoint(F(-5), F(240)), DFPoint(F(6), F(240)),
      DFPoint(F(2), F(240)), DFPoint(F(60), F(240)), DFPoint(F(320), F(240)),
      DFPoint(F(480), F(18)), DFPoint(F(160), F(18)), DFPoint(F(160), F(240)),
      DFPoint(F(638), F(240)), DFPoint(F(320), F(2)), DFPoint(F(900), F(600)) }

InitHover ==
    \E t \in HoverTrees :
        Started(update([root |-> t, panels |-> [p \in HoverPanels |-> DockWidget],
                        windows |-> <<>>, mgr |-> DockManager],
                       mainContainerBounds))

HoverMove ==
    /\ mgr.draggedFloatingWindow # NoWindow
    /\ \E pos \in HoverPoints :
          Becomes(updateFloatingDrag(World, pos),
                  [NoOp EXCEPT !.op = "updateFloatingDrag", !.pos = pos])

HoverRelease ==
    /\ mgr.draggedFloatingWindow # NoWindow
    /\ \E pos \in HoverPoints :
          Becomes(endFloatingDrag(World, pos),
                  [NoOp EXCEPT !.op = "endFloatingDrag", !.pos = pos])

NextHover ==
    \/ StartUndockDrag
    \/ HoverMove
    \/ HoverRelease

SpecHover == InitHover /\ [][NextHover]_vars

\* ------------------------------------------------------------------------
\* Round trips: a panel is pulled out of a normalized layout and its window
\* is released over what is left.  The release remembers the layout the
\* panel was pulled out of (last.origin).
\* ------------------------------------------------------------------------
RoundTripTrees ==
    { SplitNode(TRUE, Leaf("A"), SplitNode(FALSE, Leaf("B"), Leaf("C"))),
      SplitNode(TRUE, Leaf("A"), TabNode(<<Leaf("B"), Leaf("C")>>)),
      SplitNode(TRUE, Leaf("A"),
                SplitNode(FALSE, TabNode(<<Leaf("B"), Leaf("C")>>), Leaf("D"))),
      SplitNode(FALSE, SplitNode(TRUE, Leaf("A"), Leaf("B")), Leaf("C")),
      TabNode(<<SplitNode(TRUE, TabNode(<<Leaf("A"), Leaf("B")>>), Leaf("C")),
                Leaf("D")>>),
      SplitNode(TRUE, Leaf("A"),
                SplitNode(FALSE, Leaf("B"), SplitNode(TRUE, Leaf("C"), Leaf("D")))) }

\* pointer positions: in the root's left, right, top and bottom edge strip,
\* in the left and right zone of a panel filling the right half, in its top
\* and bottom zone, in the right zone of a panel filling the left half, in
\* the header hint of the right half, and in the middle of the left half
RoundTripPoints ==
    { DFPoint(F(2), F(240)), DFPoint(F(638), F(240)), DFPoint(F(320), F(2)),
      DFPoint(F(320), F(478)),
      DFPoint(F(330), F(240)), DFPoint(F(620), F(240)), DFPoint(F(480), F(40)),
      DFPoint(F(480), F(470)), DFPoint(F(300), F(240)), DFPoint(F(480), F(18)),
      DFPoint(F(160), F(240)) }

InitRoundTrip ==
    \E t \in RoundTripTrees :
        Started(update([root |-> t, panels |-> [p \in Panels |-> DockWidget],
                        windows |-> <<>>, mgr |-> DockManager],
                       mainContainerBounds))

Undock == steps = 0 /\ StartUndockDrag

\* the result of a release becomes the state
Redocks(W, pos) ==
    /\ steps' = steps + 1
    /\ root' = W.root
    /\ panels' = W.panels
    /\ windows' = W.windows
    /\ mgr' = W.mgr
    /\ splitter' = splitter
    /\ last' = [op |-> "endFloatingDrag", widget |-> last.widget, pos |-> pos,
                window |-> NoWindow, container |-> ZeroRect, id |-> NoWindow,
                pre |-> World, origin |-> last.pre]

Redock ==
    /\ steps = 1
    /\ last.op = "startUndockDrag"
    /\ mgr.draggedFloatingWindow # NoWindow
    /\ \E pos \in RoundTripPoints : Redocks(endFloatingDrag(World, pos), pos)

NextRoundTrip ==
    \/ Undock
    \/ Redock

SpecRoundTrip == InitRoundTrip /\ [][NextRoundTrip]_vars

\* ------------------------------------------------------------------------
\* Closing every panel: closeWidget in any order on docked and floating
\* panels, refreshLayoutState (DockLayout::update, then
\* DockSplitter::updateSplitters) and attempts to grab a splitter.  The
\* calls remember the panels closeWidget was called on (last.called) and
\* whether refreshLayoutState has run since the tree last changed
\* (last.fresh).
\* ------------------------------------------------------------------------
CloseTrees ==
    { At(1, SplitNode(TRUE, Leaf("A"), At(2, SplitNode(FALSE, Leaf("B"), Leaf("D"))))),
      At(1, SplitNode(TRUE, Leaf("A"), TabNode(<<Leaf("B"), Leaf("C")>>))),
      TabNode(<<At(1, SplitNode(TRUE, TabNode(<<Leaf("A"), Leaf("B")>>), Leaf("C"))),
                Leaf("D")>>),
      Leaf("A") }

\* pointer positions: on the middle seam and in the middle of a pane
ClosePoints == { DFPoint(F(320), F(240)), DFPoint(F(160), F(100)) }

Called(op, w, pos, called, fresh) ==
    [op |-> op, widget |-> w, pos |-> pos, window |-> NoWindow,
     container |-> mainContainerBounds, id |-> NoWindow, pre |-> WithSplitter,
     called |-> called, fresh |-> fresh]

InitCloseAll ==
    \E t \in CloseTrees :
        /\ root = update([root |-> t, panels |-> [p \in Panels |-> DockWidget],
                          windows |-> <<>>, mgr |-> DockManager],
                         mainContainerBounds).root
        /\ panels = update([root |-> t, panels |-> [p \in Panels |-> DockWidget],
                            windows |-> <<>>, mgr |-> DockManager],
                           mainContainerBounds).panels
        /\ windows = <<>>
        /\ mgr = DockManager
        /\ splitter = updateSplitters(DockSplitter, root, mainContainerBounds)
        /\ steps = 0
        /\ last = [NoOp EXCEPT !.op = "refreshLayoutState"]
                  @@ [called |-> {}, fresh |-> TRUE]

CloseAllBecomes(W, S, call) ==
    /\ ~splitter.halted
    /\ root' = W.root
    /\ panels' = W.panels
    /\ windows' = W.windows
    /\ mgr' = W.mgr
    /\ splitter' = S
    /\ steps' = steps
    /\ last' = call

CloseNext ==
    \E w \in Panels :
        CloseAllBecomes(closeWidget(World, w), splitter,
                        Called("closeWidget", w, ZeroPoint, last.called \cup {w}, FALSE))

PullOut ==
    \E w \in Panels, id \in FreshIds :
        CloseAllBecomes(startUndockDrag(World, w, PressPoint, id), splitter,
                        Called("startUndockDrag", w, PressPoint, last.called, FALSE))

\* DX12Demo::refreshLayoutState
RefreshLayoutState ==
    CloseAllBecomes(update(World, mainContainerBounds),
                    updateSplitters(splitter, update(World, mainContainerBounds).root,
                                    mainContainerBounds),
                    Called("refreshLayoutState", NoWidget, ZeroPoint, last.called, TRUE))

GrabSplitter ==
    \E p \in ClosePoints :
        \E halted \in Survives(splitterStartDrag(splitter, root,
                                                 splitterAtPoint(splitter, p), p)) :
            CloseAllBecomes(World,
                            [splitterStartDrag(splitter, root,
                                               splitterAtPoint(splitter, p), p)
                                 EXCEPT !.halted = halted],
                            Called("splitterStartDrag", NoWidget, p, last.called,
                                   last.fresh))

NextCloseAll ==
    \/ CloseNext
    \/ PullOut
    \/ RefreshLayoutState
    \/ GrabSplitter

SpecCloseAll == InitCloseAll /\ [][NextCloseAll]_vars

\* ------------------------------------------------------------------------
\* Events: drags are started by the panels' and windows' title bars and
\* DockManager::handleEvent gets the mouse events (last.op is the event's
\* type)
\* ------------------------------------------------------------------------
EventTypes == {"MouseDown", "MouseMove", "MouseUp"}

HandleEvent ==
    \E type \in EventTypes, pos \in Points, id \in FreshIds :
        Becomes(handleEvent(World, type, pos, id).world,
                [NoOp EXCEPT !.op = type, !.pos = pos, !.id = id])

NextEvents ==
    \/ StartDrag
    \/ StartUndockDrag
    \/ StartFloatingDrag
    \/ HandleEvent

SpecEvents == Init /\ [][NextEvents]_vars

\* ------------------------------------------------------------------------
\* A floating window following the pointer: a window made by
\* createFloatingWindow, of any size and place, is grabbed, moved and
\* released
\* ------------------------------------------------------------------------
\* window rectangles: inside the work area, across its right and lower
\* border, larger than the work area, and outside it on the upper left
FollowBounds ==
    { DFRect(F(700), F(100), F(300), F(200)),
      DFRect(F(1100), F(600), F(300), F(200)),
      DFRect(F(-100), F(-50), F(1500), F(900)),
      DFRect(F(-400), F(-300), F(320), F(240)) }

\* pointer positions: far outside on both sides, beside the container inside
\* the work area, in the work area's lower right corner, in the middle of a
\* panel, on the container's left edge and in a panel's header hint
FollowPoints ==
    { DFPoint(F(-500), F(-500)), DFPoint(F(2000), F(1000)), DFPoint(F(900), F(600)),
      DFPoint(F(1279), F(719)), DFPoint(F(160), F(240)), DFPoint(F(2), F(240)),
      DFPoint(F(480), F(18)) }

InitFollow ==
    \E bounds \in FollowBounds :
        Started(createFloatingWindow(
                    update([root |-> SplitNode(TRUE, Leaf("B"), Leaf("C")),
                            panels |-> [p \in Panels |-> DockWidget],
                            windows |-> <<>>, mgr |-> DockManager],
                           mainContainerBounds),
                    "A", bounds, 1))

FollowMove ==
    /\ mgr.draggedFloatingWindow # NoWindow
    /\ \E pos \in FollowPoints :
          Becomes(updateFloatingDrag(World, pos),
                  [NoOp EXCEPT !.op = "updateFloatingDrag", !.pos = pos])

FollowRelease ==
    /\ mgr.draggedFloatingWindow # NoWindow
    /\ \E pos \in FollowPoints :
          Becomes(endFloatingDrag(World, pos),
                  [NoOp EXCEPT !.op = "endFloatingDrag", !.pos = pos])

NextFollow ==
    \/ StartFloatingDrag
    \/ FollowMove
    \/ FollowRelease

SpecFollow == InitFollow /\ [][NextFollow]_vars

\* ------------------------------------------------------------------------
\* The release of a floating drag, as the last call saw it
\* ------------------------------------------------------------------------
\* the last call was endFloatingDrag on a floating window that exists
Released ==
    /\ last.op = "endFloatingDrag"
    /\ hasWindow(last.pre, last.pre.mgr.draggedFloatingWindow)

\* the panel that window hosts
Incoming == frameOf(last.pre, last.pre.mgr.draggedFloatingWindow).content

\* the state endFloatingDrag finds its candidate in: the layout brought up to
\* date, the window moved, the candidates collected
Hovering == updateFloatingDrag(last.pre, last.pos)

\* the place in dropCandidates_ of the winning candidate, 0 for none
Picked == releaseCandidate(Hovering, last.pos)

\* the last call docked the panel on a candidate of one of these zones
DockedOn(zones) ==
    /\ Released
    /\ Incoming # NoWidget
    /\ Picked # 0
    /\ Hovering.mgr.dropCandidates[Picked].zone \in zones

Front(path) == SubSeq(path, 1, Len(path) - 1)

\* ------------------------------------------------------------------------
\* C1
\* ------------------------------------------------------------------------
HostedOnce(leaves, frames) ==
    /\ \A i, j \in 1..Len(leaves) : i # j => leaves[i] # leaves[j]
    /\ \A i \in 1..Len(frames) : frames[i].content \notin Range(leaves)

\* C1: in every reachable state no panel is the panel of two Widget leaves
\* of the tree, and no panel is a leaf of the tree and the content of a
\* floating window
C1_HostedOnce == HostedOnce(LeafPanels(root), windows)

\* a release that docked the panel of a floating window back into the tree
C1_DockedBack ==
    /\ Released
    /\ Incoming # NoWidget
    /\ Incoming \in Range(LeafPanels(root))
    /\ Len(windows) < Len(last.pre.windows)

\* ------------------------------------------------------------------------
\* C3
\* ------------------------------------------------------------------------
\* the Tab node at `tab` holds what `before` held followed by the incoming
\* panel, which is active; everything else of `tree` is where it was
TabHolds(tree, tab, before, incoming) ==
    /\ NodeAt(root, tab) # Null
    /\ NodeAt(root, tab).type = "Tab"
    /\ NodeAt(root, tab).activeTab = Len(before)
    /\ Structure(root)
         = Structure(AssignAt(tree, tab, TabNode(before \o <<Leaf(incoming)>>)))

IsChildOfTab(tree, target) ==
    /\ target # <<>>
    /\ target[Len(target)] > 2
    /\ NodeAt(tree, Front(target)).type = "Tab"

\* the candidate's target is one the claim speaks of
TabTarget(tree, target) ==
    /\ target # NoHandle
    /\ NodeAt(tree, target) # Null
    /\ NodeAt(tree, target).type \in {"Tab", "Widget"}

TabDocked(tree, target, incoming) ==
    IF NodeAt(tree, target).type = "Tab"
    THEN TabHolds(tree, target, NodeAt(tree, target).children, incoming)
    ELSE IF IsChildOfTab(tree, target)
    THEN TabHolds(tree, Front(target), NodeAt(tree, Front(target)).children, incoming)
    ELSE TabHolds(tree, target, <<NodeAt(tree, target)>>, incoming)

\* C3 read on the tree that the update() inside the release makes of the
\* tree the release starts from (nested Tabs flattened): in it a Widget
\* target outside a Tab gives way to a Tab of the target and the incoming
\* panel, a Tab target or the Tab around the target gets the incoming panel
\* as its last child, the incoming panel is active and nothing else moves
C3_TabDock ==
    (/\ DockedOn({"Tab", "Center"})
     /\ TabTarget(Hovering.root, Hovering.mgr.dropCandidates[Picked].target))
    => TabDocked(Hovering.root, Hovering.mgr.dropCandidates[Picked].target, Incoming)

\* C3: a release on a Tab/Center candidate makes a Tab of a Widget target
\* that is no child of a Tab and the incoming panel, appends the incoming
\* panel to a Tab target or to the Tab around the target, makes the incoming
\* panel the active tab, and no other panel of the tree the release starts
\* from changes its place
C3_TabDockInPlace ==
    (/\ DockedOn({"Tab", "Center"})
     /\ TabTarget(Hovering.root, Hovering.mgr.dropCandidates[Picked].target))
    => /\ TabDocked(Hovering.root, Hovering.mgr.dropCandidates[Picked].target, Incoming)
       /\ Structure(Hovering.root) = Structure(last.pre.root)

\* a release on the header strip of a panel that is a child of a Tab node
C3_TabAppended ==
    /\ DockedOn({"Tab", "Center"})
    /\ TabTarget(Hovering.root, Hovering.mgr.dropCandidates[Picked].target)
    /\ IsChildOfTab(Hovering.root, Hovering.mgr.dropCandidates[Picked].target)
    /\ root # Null

\* ------------------------------------------------------------------------
\* C4
\* ------------------------------------------------------------------------
EdgeZones == {"Left", "Right", "Top", "Bottom"}

\* the handle the edge branch writes through
EdgeHandle(tree, target) ==
    IF target = NoHandle \/ NodeAt(tree, target) = Null THEN <<>> ELSE target

EdgeSplitOver(zone, existing, incoming) ==
    IF zone \in {"Left", "Top"}
    THEN SplitNode(zone \in {"Left", "Right"}, Leaf(incoming), existing)
    ELSE SplitNode(zone \in {"Left", "Right"}, existing, Leaf(incoming))

\* a new Split stands where the handle's node stood, the incoming panel on
\* the zone's side of it, the former subtree and the rest of `tree` as before
EdgeDocked(tree, zone, handle, incoming) ==
    /\ NodeAt(root, handle) # Null
    /\ NodeAt(root, handle).type = "Split"
    /\ NodeAt(root, handle).vertical = (zone \in {"Left", "Right"})
    /\ Structure(root)
         = Structure(AssignAt(tree, handle,
                              EdgeSplitOver(zone, NodeAt(tree, handle), incoming)))

Extent(node) == IF node.vertical THEN node.bounds.width ELSE node.bounds.height
FirstExtent(node) ==
    IF node.vertical THEN node.first.bounds.width ELSE node.first.bounds.height

\* the ratio is the first child's share of the Split as laid out, and that
\* is the share asked for when both children's minimum sizes leave room
LaidOutRatio(node, asked) ==
    /\ FGt(Extent(node), FZero) => node.ratio = FDiv(FirstExtent(node), Extent(node))
    /\ (/\ FLe(node.minFirstSize, FMul(Extent(node), asked))
        /\ FLe(FMul(Extent(node), asked), FSub(Extent(node), node.minSecondSize)))
       => FirstExtent(node) = FMul(Extent(node), asked)

AskedRatio(zone) == IF zone \in {"Left", "Top"} THEN FQ(1, 4) ELSE FQ(3, 4)

ReleasedNowhere ==
    /\ Released
    /\ Incoming # NoWidget
    /\ Picked = 0

\* the panel is still the content of the window it floated in, and the
\* orchestrator is Idle
StillFloating ==
    /\ hasWindow(World, last.pre.mgr.draggedFloatingWindow)
    /\ frameOf(World, last.pre.mgr.draggedFloatingWindow).content = Incoming
    /\ Len(windows) = Len(last.pre.windows)
    /\ panels[Incoming].floating
    /\ mgr.draggedFloatingWindow = NoWindow
    /\ ~mgr.overlayVisible

\* C5 read up to normalization: a release of an existing floating window
\* with no candidate active leaves the tree as update() normalizes the tree
\* it starts from (the same panels in the same order, the same structure
\* when that tree was normalized already), the panel in the same floating
\* window and the orchestrator Idle
C5_ReleaseNowhere ==
    ReleasedNowhere
    => /\ LeafPanels(root) = LeafPanels(last.pre.root)
       /\ Structure(root) = Structure(normalizeNode(last.pre.root))
       /\ WellFormed(last.pre.root) => Structure(root) = Structure(last.pre.root)
       /\ StillFloating

\* C5: a release with no drop candidate active at the release point leaves
\* the tree's structure and panels as they were, the panel in the same
\* floating window and the orchestrator Idle
C5_ReleaseKeepsTree ==
    ReleasedNowhere
    => /\ LeafPanels(root) = LeafPanels(last.pre.root)
       /\ Structure(root) = Structure(last.pre.root)
       /\ StillFloating

\* a release in the middle of a panel, far from every hint and edge
C5_ReleasedInside ==
    /\ ReleasedNowhere
    /\ root # Null
    /\ contains(mainContainerBounds, last.pos)

\* ------------------------------------------------------------------------
\* C6
\* ------------------------------------------------------------------------
\* C6: cancelFloatingDrag leaves the tree and every floating window as they
\* were and no floating drag active; a second cancelFloatingDrag changes
\* nothing; with no floating drag active the first changes nothing either
C6_CancelFloatingDrag ==
    last.op = "cancelFloatingDrag"
    => /\ root = last.pre.root
       /\ windows = last.pre.windows
       /\ panels = last.pre.panels
       /\ mgr.draggedFloatingWindow = NoWindow
       /\ cancelFloatingDrag(World) = World
       /\ last.pre.mgr.draggedFloatingWindow = NoWindow => World = last.pre

\* a cancelFloatingDrag during a floating drag with a candidate highlighted
C6_CancelledWhileHovering ==
    /\ last.op = "cancelFloatingDrag"
    /\ last.pre.mgr.draggedFloatingWindow # NoWindow
    /\ last.pre.mgr.highlightedCandidateIndex >= 0
    /\ last.pre.mgr.overlayVisible

\* ------------------------------------------------------------------------
\* C7
\* ------------------------------------------------------------------------
\* the last call was updateDrag during a docked drag of a leaf of the tree
DockedDragMoved ==
    /\ last.op = "updateDrag"
    /\ last.pre.mgr.drag.active
    /\ last.pre.mgr.drag.widget # NoWidget
    /\ ~last.pre.panels[last.pre.mgr.drag.widget].floating
    /\ last.pre.mgr.drag.widget \in Range(LeafPanels(last.pre.root))

Square(a) == FMul(a, a)

Covers85(startBounds) ==
    FGt(FDiv(FMul(startBounds.width, startBounds.height),
             FMul(mainContainerBounds.width, mainContainerBounds.height)),
        FQ(85, 100))

\* the squared distance from the drag's start point exceeds the threshold
ThresholdExceeded ==
    FGt(FAdd(Square(FSub(last.pos.x, last.pre.mgr.drag.startPos.x)),
             Square(FSub(last.pos.y, last.pre.mgr.drag.startPos.y))),
        IF Covers85(last.pre.mgr.drag.startBounds) THEN F(1024) ELSE F(4900))

\* a tree without the leaf of panel p, its emptied or single-child ancestors
\* collapsed
RECURSIVE Pruned(_, _)
RECURSIVE PrunedEach(_, _, _)
PrunedEach(children, p, i) ==
    IF i > Len(children) THEN <<>>
    ELSE (IF Pruned(children[i], p) = Null THEN <<>> ELSE <<Pruned(children[i], p)>>)
         \o PrunedEach(children, p, i + 1)

Pruned(s, p) ==
    IF s = Null THEN Null
    ELSE CASE s.type = "Widget" -> IF s.widget = p THEN Null ELSE s
           [] s.type = "Tab" ->
                  IF PrunedEach(s.children, p, 1) = <<>> THEN Null
                  ELSE IF Len(PrunedEach(s.children, p, 1)) = 1
                  THEN PrunedEach(s.children, p, 1)[1]
                  ELSE [s EXCEPT !.children = PrunedEach(s.children, p, 1)]
           [] OTHER ->
                  IF Pruned(s.first, p) = Null THEN Pruned(s.second, p)
                  ELSE IF Pruned(s.second, p) = Null THEN Pruned(s.first, p)
                  ELSE [s EXCEPT !.first = Pruned(s.first, p),
                                 !.second = Pruned(s.second, p)]

\* within the one call: the leaf is gone and its ancestors are collapsed, a
\* new floating window hosts the panel, the docked drag is over
Undocked ==
    /\ Structure(root) = Pruned(Structure(last.pre.root), last.pre.mgr.drag.widget)
    /\ Len(windows) = Len(last.pre.windows) + 1
    /\ windows[Len(windows)].id = last.id
    /\ windows[Len(windows)].content = last.pre.mgr.drag.widget
    /\ SubSeq(windows, 1, Len(last.pre.windows)) = last.pre.windows
    /\ panels[last.pre.mgr.drag.widget].floating
    /\ ~mgr.drag.active
    /\ mgr.drag.widget = NoWidget

\* none of it happened
NotUndocked ==
    /\ root = last.pre.root
    /\ windows = last.pre.windows
    /\ mgr.drag.active
    /\ mgr.drag.widget = last.pre.mgr.drag.widget
    /\ mgr.draggedFloatingWindow = last.pre.mgr.draggedFloatingWindow

\* C7 but for the floating drag: an updateDrag beyond the threshold (4900,
\* or 1024 for a panel whose start bounds cover more than 85% of the
\* container) removes the leaf with its ancestors collapsed, creates the
\* floating window and ends the docked drag in that one call; the floating
\* drag becomes active on the new window when none is active, and stays on
\* the window it was on otherwise; an updateDrag within the threshold does
\* none of it
C7_ThresholdUndock ==
    DockedDragMoved
    => IF ThresholdExceeded
       THEN /\ Undocked
            /\ IF last.pre.mgr.draggedFloatingWindow = NoWindow
               THEN mgr.draggedFloatingWindow = last.id /\ mgr.overlayVisible
               ELSE mgr.draggedFloatingWindow = last.pre.mgr.draggedFloatingWindow
       ELSE NotUndocked

\* C7: during a docked drag of a leaf of the tree an updateDrag beyond the
\* threshold removes the leaf, creates the floating window, ends the docked
\* drag and makes the floating drag active on that window, all in the one
\* call; an updateDrag within the threshold does none of it
C7_ThresholdUndockDrags ==
    DockedDragMoved
    => IF ThresholdExceeded
       THEN Undocked /\ mgr.draggedFloatingWindow = last.id /\ mgr.overlayVisible
       ELSE NotUndocked

\* an updateDrag 40 px from the start point undocks a panel that fills the
\* container
C7_LowThresholdUndocked ==
    /\ DockedDragMoved
    /\ ThresholdExceeded
    /\ Covers85(last.pre.mgr.drag.startBounds)
    /\ last.pos = DFPoint(F(200), F(18))
    /\ mgr.draggedFloatingWindow = last.id

\* ------------------------------------------------------------------------
\* C8
\* ------------------------------------------------------------------------
\* the last call asked to close or undock a panel that is no leaf of the tree
AbsentPanelCall ==
    /\ last.op \in {"closeDockedWidget", "startUndockDrag"}
    /\ last.widget \notin Range(LeafPanels(last.pre.root))

\* C8: closeDockedWidget and startUndockDrag for a panel that is no leaf of
\* the tree (the empty tree included) leave the tree as it was, create no
\* floating window and start no drag; RemoveWidgetNode for a panel that is no
\* leaf returns false, leaves the tree to its owner and extracts nothing
C8_AbsentPanel ==
    /\ AbsentPanelCall
       => /\ root = last.pre.root
          /\ windows = last.pre.windows
          /\ mgr = last.pre.mgr
    /\ \A p \in Panels \ Range(LeafPanels(root)) :
          RemoveWidgetNode(root, p) = [found |-> FALSE, node |-> root, extracted |-> Null]

\* startUndockDrag for a panel that was never docked, the tree not empty
C8_UndockAbsent ==
    /\ AbsentPanelCall
    /\ last.op = "startUndockDrag"
    /\ last.pre.root # Null
    /\ ~last.pre.panels[last.widget].floating

\* ------------------------------------------------------------------------
\* C11
\* ------------------------------------------------------------------------
SecondExtent(node) ==
    IF node.vertical THEN node.second.bounds.width ELSE node.second.bounds.height

Start(vertical, node) == IF vertical THEN node.bounds.x ELSE node.bounds.y

Near(a, b) == FLe(FAbs(FSub(a, b)), F(1))

\* the two children of the Split share its extent and meet at the seam
SplitSums(node) ==
    /\ Near(FAdd(FirstExtent(node), SecondExtent(node)), Extent(node))
    /\ Start(node.vertical, node.first) = Start(node.vertical, node)
    /\ Start(node.vertical, node.second)
         = FAdd(Start(node.vertical, node), FirstExtent(node))

\* the Split nodes of a tree
RECURSIVE Splits(_)
Splits(node) ==
    IF node = Null THEN {}
    ELSE CASE node.type = "Split" ->
                  {node} \cup Splits(node.first) \cup Splits(node.second)
           [] node.type = "Tab" ->
                  UNION {Splits(node.children[i]) : i \in 1..Len(node.children)}
           [] OTHER -> {}

UpdatedIn(container) ==
    /\ last.op = "update"
    /\ root # Null
    /\ last.container = container

UpdatedInRoom ==
    /\ last.op = "update"
    /\ root # Null
    /\ FGe(last.container.width, FZero)
    /\ FGe(last.container.height, FZero)

Cramped(node) ==
    /\ FGt(Extent(node), FZero)
    /\ FLt(Extent(node), FAdd(node.minFirstSize, node.minSecondSize))

RECURSIVE Leaves(_)
Leaves(node) ==
    IF node = Null THEN {}
    ELSE CASE node.type = "Split" -> Leaves(node.first) \cup Leaves(node.second)
           [] node.type = "Tab" ->
                  UNION {Leaves(node.children[i]) : i \in 1..Len(node.children)}
           [] OTHER -> {node}

\* the Tab nodes of a tree
RECURSIVE Tabs(_)
Tabs(node) ==
    IF node = Null THEN {}
    ELSE CASE node.type = "Split" -> Tabs(node.first) \cup Tabs(node.second)
           [] node.type = "Tab" ->
                  {node} \cup UNION {Tabs(node.children[i]) : i \in 1..Len(node.children)}
           [] OTHER -> {}

\* the container satisfies the root's minimum
RoomForRoot ==
    /\ last.op = "update"
    /\ root # Null
    /\ FGe(last.container.width, root.calculatedMinWidth)
    /\ FGe(last.container.height, root.calculatedMinHeight)

HasItsMinimum(leaf) ==
    /\ FGe(leaf.bounds.width, minimumSize(leaf.widget).width)
    /\ FGe(leaf.bounds.height, minimumSize(leaf.widget).height)

\* C12: after update(container) with a container at least as wide and as
\* high as the root's calculated minimum, every Widget leaf's bounds are at
\* least as wide and as high as its panel's reported minimum size
C12_MinimumRespected == RoomForRoot => \A leaf \in Leaves(root) : HasItsMinimum(leaf)

\* the same for trees without Tab nodes
C12_MinimumRespectedBySplits ==
    (RoomForRoot /\ Tabs(root) = {}) => \A leaf \in Leaves(root) : HasItsMinimum(leaf)

\* an update of nested Splits in a container that satisfies the root's minimum
C12_SplitsWithRoom ==
    /\ RoomForRoot
    /\ Tabs(root) = {}
    /\ root.type = "Split"
    /\ root.second.type = "Split"

\* ------------------------------------------------------------------------
\* C13
\* ------------------------------------------------------------------------
\* the minimum the reference definition gives a node, bottom-up
RECURSIVE RefMin(_)
RECURSIVE RefTabWidth(_, _)
RECURSIVE RefTabHeight(_, _)
RefTabWidth(children, i) ==
    IF i = 0 THEN FZero
    ELSE FMax(RefTabWidth(children, i - 1), RefMin(children[i]).width)

RefTabHeight(children, i) ==
    IF i = 0 THEN FZero
    ELSE FAdd(RefTabHeight(children, i - 1), RefMin(children[i]).height)

Reported(value) == IF FGt(value, FZero) THEN value ELSE F(120)

RefMin(node) ==
    CASE node.type = "Widget" ->
            DFSize(Reported(minimumSize(node.widget).width),
                   Reported(minimumSize(node.widget).height))
      [] node.type = "Tab" ->
            DFSize(RefTabWidth(node.children, Len(node.children)),
                   RefTabHeight(node.children, Len(node.children)))
      [] OTHER ->
            IF node.vertical
            THEN DFSize(FAdd(FAdd(RefMin(node.first).width, RefMin(node.second).width),
                             F(4)),
                        FMax(RefMin(node.first).height, RefMin(node.second).height))
            ELSE DFSize(FMax(RefMin(node.first).width, RefMin(node.second).width),
                        FAdd(FAdd(RefMin(node.first).height, RefMin(node.second).height),
                             F(4)))

\* every node of a tree
RECURSIVE Nodes(_)
Nodes(node) ==
    IF node = Null THEN {}
    ELSE CASE node.type = "Split" -> {node} \cup Nodes(node.first) \cup Nodes(node.second)
           [] node.type = "Tab" ->
                  {node} \cup UNION {Nodes(node.children[i]) : i \in 1..Len(node.children)}
           [] OTHER -> {node}

HasRefMin(node) ==
    /\ node.calculatedMinWidth = RefMin(node).width
    /\ node.calculatedMinHeight = RefMin(node).height
    /\ node.type = "Split" =>
          IF node.vertical
          THEN /\ node.minFirstSize = RefMin(node.first).width
               /\ node.minSecondSize = RefMin(node.second).width
          ELSE /\ node.minFirstSize = RefMin(node.first).height
               /\ node.minSecondSize = RefMin(node.second).height

RECURSIVE PairedSplits(_, _)
PairedSplits(before, after) ==
    CASE before.type = "Split" ->
            {<<before, after>>} \cup PairedSplits(before.first, after.first)
                                \cup PairedSplits(before.second, after.second)
      [] before.type = "Tab" ->
            UNION {PairedSplits(before.children[i], after.children[i]) :
                       i \in 1..Len(before.children)}
      [] OTHER -> {}

SameShape ==
    /\ last.op = "update"
    /\ root # Null
    /\ last.pre.root # Null
    /\ Structure(last.pre.root) = Structure(root)

\* what the Split asked for before the update, of the extent it was given
Requested(before, total) ==
    CASE before.splitSizing = "FixedFirst" -> before.fixedSize
      [] before.splitSizing = "FixedSecond" -> FSub(total, before.fixedSize)
      [] OTHER -> FMul(total, before.ratio)

Fits(node) == FGe(Extent(node), FAdd(node.minFirstSize, node.minSecondSize))

RequestClamped(before, after) ==
    LET total == Extent(after)
        low == after.minFirstSize
        high == FSub(total, after.minSecondSize)
        asked == Requested(before, total)
    IN  /\ FirstExtent(after) = FClamp(asked, low, high)
        /\ FLt(asked, low) => FirstExtent(after) = low
        /\ FGt(asked, high) => FirstExtent(after) = high

\* C14: for every Split in every sizing mode whose extent is at least
\* minFirstSize + minSecondSize, the first child's extent after update() is
\* the requested size (total * ratio, fixedSize, or total - fixedSize) clamped
\* into [minFirstSize, total - minSecondSize]: a request below the first
\* minimum gives minFirstSize, one that leaves the second side too little
\* gives total - minSecondSize
C14_RequestClamped ==
    SameShape => \A pair \in PairedSplits(last.pre.root, root) :
                     Fits(pair[2]) => RequestClamped(pair[1], pair[2])

\* a FixedSecond Split with room whose request leaves the second side less
\* than its minimum
C14_FixedSecondClamped ==
    /\ SameShape
    /\ \E pair \in PairedSplits(last.pre.root, root) :
          /\ pair[1].splitSizing = "FixedSecond"
          /\ Fits(pair[2])
          /\ FGt(Requested(pair[1], Extent(pair[2])),
                 FSub(Extent(pair[2]), pair[2].minSecondSize))

\* ------------------------------------------------------------------------
\* C15
\* ------------------------------------------------------------------------
TooSmall(node) ==
    /\ FGt(Extent(node), FZero)
    /\ FLt(Extent(node), FAdd(node.minFirstSize, node.minSecondSize))

\* a minimum clamped to [0, total]
ClampedMin(minimum, total) == FClamp(minimum, FZero, total)

\* total * minFirst / (minFirst + minSecond), the minimums clamped first
Share(node) ==
    LET total == Extent(node)
        minFirst == ClampedMin(node.minFirstSize, total)
        minSecond == ClampedMin(node.minSecondSize, total)
    IN  FDiv(FMul(total, minFirst), FAdd(minFirst, minSecond))

\* binary32 rounds the two divisions differently: equal to a thousandth
Rounded(a, b) == FLe(FAbs(FSub(a, b)), FQ(1, 1000))

Compressed(node) ==
    /\ Rounded(FirstExtent(node), Share(node))
    /\ Rounded(SecondExtent(node), FSub(Extent(node), Share(node)))
    /\ FGt(node.minFirstSize, FZero) => FGt(FirstExtent(node), FZero)
    /\ FGt(node.minSecondSize, FZero) => FGt(SecondExtent(node), FZero)

\* C15: a Split whose extent is positive and smaller than minFirstSize +
\* minSecondSize gives its first child total * minFirst / (minFirst +
\* minSecond), to the rounding of binary32, and its second child the rest,
\* each minimum clamped to [0, total] first, whatever its ratio, fixed size
\* and sizing mode are; neither side with a positive minimum gets zero
C15_Compressed ==
    (last.op = "update" /\ root # Null)
    => \A node \in Splits(root) : TooSmall(node) => Compressed(node)

\* a FixedFirst Split laid out in less than its two minimums, with a fixed
\* size larger than the whole extent
C15_FixedFirstCompressed ==
    /\ SameShape
    /\ \E pair \in PairedSplits(last.pre.root, root) :
          /\ pair[1].splitSizing = "FixedFirst"
          /\ TooSmall(pair[2])
          /\ FGt(pair[1].fixedSize, Extent(pair[2]))

\* ------------------------------------------------------------------------
\* C16
\* ------------------------------------------------------------------------
\* startDrag on a splitter and then updateDrag, from the state start-up left
DraggedOnce ==
    /\ steps = 2
    /\ last.op = "splitterUpdateDrag"
    /\ isDragging(last.pre.splitter)
    /\ isDragging(splitter)
    /\ pointee(root, splitter.activeNode) # NoHandle

\* the Split under drag after endDrag() and update() with the same container
AfterRelease == NodeAt(update(World, root.bounds).root, pointee(root, splitter.activeNode))

ParentStart ==
    IF splitter.activeVertical THEN splitter.activeParentBounds.x
    ELSE splitter.activeParentBounds.y

ParentEnd ==
    IF splitter.activeVertical
    THEN FAdd(splitter.activeParentBounds.x, splitter.activeParentBounds.width)
    ELSE FAdd(splitter.activeParentBounds.y, splitter.activeParentBounds.height)

PointerAlong == IF splitter.activeVertical THEN last.pos.x ELSE last.pos.y

BeyondFirstEnd == DraggedOnce /\ Fits(AfterRelease) /\ PointerAlong = FSub(ParentStart, F(500))
BeyondSecondEnd == DraggedOnce /\ Fits(AfterRelease) /\ PointerAlong = FAdd(ParentEnd, F(500))

\* C16: for a Split with room for both minimums, startDrag on its splitter,
\* updateDrag with the pointer 500 px beyond the first-side end of the parent
\* bounds, endDrag and update() with the same container leave the first child
\* exactly minFirstSize; with the pointer 500 px beyond the second-side end
\* they leave the second child exactly minSecondSize and the first
\* total - minSecondSize
C16_DragToMinimum ==
    /\ BeyondFirstEnd => FirstExtent(AfterRelease) = AfterRelease.minFirstSize
    /\ BeyondSecondEnd =>
          /\ SecondExtent(AfterRelease) = AfterRelease.minSecondSize
          /\ FirstExtent(AfterRelease) = FSub(Extent(AfterRelease), AfterRelease.minSecondSize)

\* what the drag does reach: the minimum with up to the splitter's thickness
\* on top
C16_DragNearMinimum ==
    /\ BeyondFirstEnd =>
          /\ FGe(FirstExtent(AfterRelease), AfterRelease.minFirstSize)
          /\ FLe(FirstExtent(AfterRelease), FAdd(AfterRelease.minFirstSize, SPLITTER_THICKNESS))
    /\ BeyondSecondEnd =>
          /\ FGe(SecondExtent(AfterRelease), AfterRelease.minSecondSize)
          /\ FLe(SecondExtent(AfterRelease), FAdd(AfterRelease.minSecondSize, SPLITTER_THICKNESS))

C16_DraggedBeyondFirstEnd == BeyondFirstEnd /\ AfterRelease.splitSizing = "Ratio"

\* ------------------------------------------------------------------------
\* C17
\* ------------------------------------------------------------------------
\* updateDrag was called with the node under drag no longer in the tree
DragOfRemoved ==
    /\ last.op = "splitterUpdateDrag"
    /\ isDragging(last.pre.splitter)
    /\ pointee(last.pre.root, last.pre.splitter.activeNode) = NoHandle

\* C17: whatever splitter calls and tree changes came before, an updateDrag
\* made once the Split under drag has been removed from the tree neither
\* reads nor writes that node: the drag is cancelled, isDragging() is false
C17_RemovedNodeUntouched ==
    DragOfRemoved => (~splitter.stale /\ ~isDragging(splitter) /\ root = last.pre.root)

\* updateSplitters does cancel the drag of a removed node
C17_RescanCancels ==
    (/\ last.op = "updateSplitters"
     /\ pointee(root, last.pre.splitter.activeNode) = NoHandle)
    => ~isDragging(splitter)

C17_RescanOfRemoved ==
    /\ last.op = "updateSplitters"
    /\ isDragging(last.pre.splitter)
    /\ ~isDragging(splitter)

\* ------------------------------------------------------------------------
\* The candidate the last call selected: updateFloatingDrag highlights it,
\* endFloatingDrag docks on it
\* ------------------------------------------------------------------------
Selecting ==
    \/ /\ last.op = "updateFloatingDrag"
       /\ hasWindow(last.pre, last.pre.mgr.draggedFloatingWindow)
    \/ Released

\* dropCandidates_ as the call collected it, and the place in it of the
\* selected candidate, 0 for none
Offered ==
    IF last.op = "updateFloatingDrag" THEN mgr.dropCandidates
    ELSE Hovering.mgr.dropCandidates

Chosen ==
    IF last.op = "updateFloatingDrag" THEN mgr.highlightedCandidateIndex + 1 ELSE Picked

FrameDistances == edgeDistances(rootContainerOf(mainContainerBounds), last.pos)

IsRootEdge(candidate) == isEdgeZone(candidate.zone) /\ candidate.depth = 0
IsInnerEdge(candidate) == isEdgeZone(candidate.zone) /\ candidate.depth > 0
IsTab(candidate) == candidate.zone \in {"Tab", "Center"}

\* a candidate the selection loops do not skip
ActiveAt(candidate) ==
    \/ contains(candidate.bounds, last.pos)
    \/ /\ IsInnerEdge(candidate)
       /\ candidate.zone = nearestEdgeOf(FrameDistances)
       /\ FLe(minDistOf(FrameDistances), F(8))

Active(cands) == {i \in 1..Len(cands) : ActiveAt(cands[i])}

\* ------------------------------------------------------------------------
\* C18
\* ------------------------------------------------------------------------
\* Tab/Center over inner-split edge over root edge, the root edge over the
\* inner-split edge within 20 px of the frame
Rank(candidate) ==
    IF IsTab(candidate) THEN 4
    ELSE IF IsRootEdge(candidate) /\ FLe(minDistOf(FrameDistances), F(20)) THEN 3
    ELSE IF IsInnerEdge(candidate) THEN 2
    ELSE 1

FirstInRank(cands, chosen) ==
    chosen # 0 => \A i \in Active(cands) : Rank(cands[i]) <= Rank(cands[chosen])

\* C18: among the candidates active at the pointer, the one updateFloatingDrag
\* highlights and endFloatingDrag uses is first in the order Tab/Center,
\* inner-split edge, root edge, a root edge within 20 px of the container
\* frame coming before an inner-split edge; so an active Tab/Center candidate
\* is selected over every active edge candidate
C18_PriorityOrder == Selecting => FirstInRank(Offered, Chosen)

FirstInRankButTab(cands, chosen) ==
    chosen # 0 => \A i \in Active(cands) :
                      \/ IsTab(cands[i]) /\ IsRootEdge(cands[chosen])
                      \/ Rank(cands[i]) <= Rank(cands[chosen])

\* the order holds among the edge candidates, and for a Tab/Center candidate
\* against the inner-split edges
C18_EdgeOrder == Selecting => FirstInRankButTab(Offered, Chosen)

RootOverInner(cands, chosen) ==
    /\ chosen # 0
    /\ IsRootEdge(cands[chosen])
    /\ \E i \in Active(cands) : IsInnerEdge(cands[i])

C18_RootEdgeOverInner == Selecting /\ RootOverInner(Offered, Chosen)

\* ------------------------------------------------------------------------
\* C19
\* ------------------------------------------------------------------------
\* candidates of equal priority: both Tab/Center, both inner-split edges, or
\* both root edges
SamePriority(a, b) ==
    \/ IsTab(a) /\ IsTab(b)
    \/ IsInnerEdge(a) /\ IsInnerEdge(b)
    \/ IsRootEdge(a) /\ IsRootEdge(b)

AreaOf(candidate) == FMul(candidate.bounds.width, candidate.bounds.height)

Rivals(cands, chosen) == {i \in Active(cands) : SamePriority(cands[i], cands[chosen])}

DepthThenArea(cands, chosen) ==
    chosen # 0 =>
        \A i \in Rivals(cands, chosen) :
            /\ cands[i].depth <= cands[chosen].depth
            /\ cands[i].depth = cands[chosen].depth =>
                   /\ FLe(AreaOf(cands[chosen]), AreaOf(cands[i]))
                   /\ AreaOf(cands[i]) = AreaOf(cands[chosen]) => chosen <= i

\* C19: among the active candidates of the selected one's priority none is
\* deeper in the tree; among those as deep none has a smaller bounds area;
\* among those of the same area none was collected before it
C19_DepthThenArea == Selecting => DepthThenArea(Offered, Chosen)

SmallerAreaWon(cands, chosen) ==
    /\ chosen # 0
    /\ \E i \in Rivals(cands, chosen) :
          /\ cands[i].depth = cands[chosen].depth
          /\ FGt(AreaOf(cands[i]), AreaOf(cands[chosen]))

DeeperWon(cands, chosen) ==
    /\ chosen # 0
    /\ \E i \in Rivals(cands, chosen) : cands[i].depth < cands[chosen].depth

FirstKept(cands, chosen) ==
    /\ chosen # 0
    /\ \E i \in Rivals(cands, chosen) :
          /\ i > chosen
          /\ cands[i].depth = cands[chosen].depth
          /\ AreaOf(cands[i]) = AreaOf(cands[chosen])

\* the selected candidate has an active rival as deep as itself with a larger
\* area
C19_SmallerAreaWon == Selecting /\ SmallerAreaWon(Offered, Chosen)

\* it has a shallower active rival
C19_DeeperWon == Selecting /\ DeeperWon(Offered, Chosen)

\* it has an active rival of its depth and area, collected after it
C19_FirstKept == Selecting /\ FirstKept(Offered, Chosen)

\* ------------------------------------------------------------------------
\* C20
\* ------------------------------------------------------------------------
\* active as claimed: the root edge by proximity, every other candidate by
\* containment
ActiveByProximity(candidate) ==
    IF IsRootEdge(candidate) THEN FLe(minDistOf(FrameDistances), F(8))
    ELSE contains(candidate.bounds, last.pos)

\* the selection takes an active candidate whenever there is one, and never
\* another
SelectsAmong(cands, chosen, active) ==
    /\ chosen # 0 => chosen \in active
    /\ active # {} => chosen # 0

NearButOutside(cands) ==
    /\ FLe(minDistOf(FrameDistances), F(8))
    /\ \E i \in 1..Len(cands) :
          IsRootEdge(cands[i]) /\ ~contains(cands[i].bounds, last.pos)

RECURSIVE PathsOf(_, _, _)
PathsOf(node, path, p) ==
    IF node = Null THEN {}
    ELSE CASE node.type = "Widget" -> IF node.widget = p THEN {path} ELSE {}
           [] node.type = "Tab" ->
                  UNION {PathsOf(node.children[i], Append(path, 2 + i), p) :
                             i \in 1..Len(node.children)}
           [] OTHER -> PathsOf(node.first, Append(path, 1), p)
                       \cup PathsOf(node.second, Append(path, 2), p)

\* the edge zone of the side a child of a Split is on
SideZone(split, side) ==
    IF split.vertical THEN (IF side = 1 THEN "Left" ELSE "Right")
    ELSE (IF side = 1 THEN "Top" ELSE "Bottom")

\* the last call released a panel that had been pulled out of the leaf at
\* `path` of the tree `origin`, one side of a Split, onto the edge zone of
\* that side of what was the leaf's sibling
RedockedBeside(origin, path) ==
    /\ path # <<>>
    /\ path[Len(path)] \in {1, 2}
    /\ DockedOn({SideZone(NodeAt(origin, Front(path)), path[Len(path)])})
    /\ Structure(NodeAt(Hovering.root,
                        EdgeHandle(Hovering.root,
                                   Hovering.mgr.dropCandidates[Picked].target)))
         = Structure(NodeAt(origin, Append(Front(path), 3 - path[Len(path)])))

RoundTrip == Released /\ "origin" \in DOMAIN last /\ WellFormed(last.origin.root)

RestoredFrom(origin, p) ==
    \A path \in PathsOf(origin, <<>>, p) :
        RedockedBeside(origin, path)
        => /\ Structure(root) = Structure(origin)
           /\ LeafPanels(root) = LeafPanels(origin)

SiblingOf(origin, path) == NodeAt(origin, Append(Front(path), 3 - path[Len(path)]))

RedockedBesideA(origin, p, type) ==
    \E path \in PathsOf(origin, <<>>, p) :
        /\ RedockedBeside(origin, path)
        /\ SiblingOf(origin, path).type = type

C21_BesideWidget == RoundTrip /\ RedockedBesideA(last.origin.root, Incoming, "Widget")
C21_BesideSplit == RoundTrip /\ RedockedBesideA(last.origin.root, Incoming, "Split")

\* ------------------------------------------------------------------------
\* C22
\* ------------------------------------------------------------------------
InWindow(W, p) == \E i \in 1..Len(W.windows) : W.windows[i].content = p
InTree(W, p) == p \in Range(LeafPanels(W.root))

HostMatches(W, p) ==
    /\ (W.panels[p].hostType = "FloatingWindow" /\ W.panels[p].hostWindow # NoWindow)
       <=> InWindow(W, p)
    /\ (W.panels[p].hostType = "DockedLayout" /\ W.panels[p].hostWindow = NoWindow)
       <=> InTree(W, p)
    /\ (~InWindow(W, p) /\ ~InTree(W, p)) => W.panels[p].hostType = "None"
    /\ InWindow(W, p) => hasWindow(W, W.panels[p].hostWindow)
                         /\ frameOf(W, W.panels[p].hostWindow).content = p

HostsMatch(W) == \A p \in DOMAIN W.panels : HostMatches(W, p)

\* C22: after every sequence of drags, undocks, releases and closes, once
\* update() has run, a panel has host type FloatingWindow and a parent
\* window exactly when a floating window holds it, host type DockedLayout
\* and no parent window exactly when it is a leaf of the tree, and host type
\* None when neither hosts it
C22_HostMatches == HostsMatch(update(World, mainContainerBounds))

\* a floating panel was closed while one panel floats and another is docked
C22_ClosedBesideBoth ==
    /\ last.op = "closeWidget"
    /\ last.pre.panels[last.widget].floating
    /\ panels[last.widget].hostType = "None"
    /\ \E p \in Panels : InWindow(World, p)
    /\ \E p \in Panels : InTree(World, p)

\* ------------------------------------------------------------------------
\* C23
\* ------------------------------------------------------------------------
Normalized(tree) == tree = Null \/ WellFormed(tree)

\* the last call was closeWidget on a panel of a normalized layout
ClosedWidget == last.op = "closeWidget" /\ Normalized(last.pre.root)

Unattached(panel) ==
    /\ panel.bounds = ZeroRect
    /\ panel.hostType = "None"
    /\ panel.hostWindow = NoWindow
    /\ ~panel.floating

\* the panel is hosted nowhere and every other panel is where it was
ClosedOnly(p) ==
    /\ ~InTree(World, p)
    /\ ~InWindow(World, p)
    /\ Unattached(panels[p])
    /\ Structure(root) = Pruned(Structure(last.pre.root), p)
    /\ windows = SelectSeq(last.pre.windows, LAMBDA w : w.content # p)
    /\ InWindow(last.pre, p) => root = last.pre.root
    /\ InTree(last.pre, p) => windows = last.pre.windows

\* C23 but for the flattening: after closeWidget the panel is no leaf of
\* the tree and in no floating window, its bounds are zero and its host
\* state is unattached, every other panel is hosted where it was, and the
\* emptied and single-child ancestors of the removed leaf are collapsed
C23_Closed == ClosedWidget => ClosedOnly(last.widget)

\* C23: after closeWidget(P) panel P is no leaf of the tree and in no
\* floating window, its bounds are zero and its host state is unattached,
\* the tree is normalized, and every other panel is hosted where it was
C23_ClosedNormalized ==
    ClosedWidget => ClosedOnly(last.widget) /\ Normalized(root)

\* closeWidget took a leaf beside a Tab out of a Split inside a Tab
C23_ClosedBesideTab ==
    /\ ClosedWidget
    /\ InTree(last.pre, last.widget)
    /\ ~Normalized(root)

\* ------------------------------------------------------------------------
\* C24
\* ------------------------------------------------------------------------
\* closeWidget has been called on every panel
AllClosed == last.called = Panels

NoSplitterAt(S, points) == \A p \in points : splitterAtPoint(S, p) = 0

NoDragStarts(S, tree, points) ==
    \A p \in points :
        splitterStartDrag(S, tree, splitterAtPoint(S, p), p) = [S EXCEPT !.stale = FALSE]

\* C24: once closeWidget has been called on every panel the root is null;
\* after refreshLayoutState (update, updateSplitters) the splitter list is
\* empty, splitterAtPoint gives no splitter at any point, no drag is active
\* and startDrag starts none
C24_AllClosed ==
    AllClosed
    => /\ root = Null
       /\ last.fresh => /\ splitter.splitters = <<>>
                        /\ NoSplitterAt(splitter, ClosePoints)
                        /\ ~isDragging(splitter)
                        /\ NoDragStarts(splitter, root, ClosePoints)

\* every panel was closed during a splitter drag and the layout was
\* refreshed
C24_DragDropped ==
    /\ AllClosed
    /\ last.op = "refreshLayoutState"
    /\ isDragging(last.pre.splitter)
    /\ last.pre.splitter.splitters # <<>>
    /\ Len(windows) = 0

\* ------------------------------------------------------------------------
\* C25
\* ------------------------------------------------------------------------
\* the leaf of panel p is a child of a Tab node
IsTabChild(tree, p) ==
    \E path \in PathsOf(tree, <<>>, p) : path # <<>> /\ path[Len(path)] > 2

\* the call took the dragged panel out of the tree into a floating window
PulledOut(p) == ~InTree(World, p) /\ panels[p].floating /\ InWindow(World, p)

\* C25 as amended: an updateDrag of a docked drag undocks the dragged panel
\* exactly when the panel is docked and not marked tabified and the pointer
\* is beyond the threshold; no panel of the tree is marked tabified, so a
\* child of a Tab node is undocked like any other docked panel
C25_SingleDockedUndocks ==
    /\ \A p \in Range(LeafPanels(root)) : ~panels[p].isTabified
    /\ DockedDragMoved
       => (PulledOut(last.pre.mgr.drag.widget)
           <=> /\ ~last.pre.panels[last.pre.mgr.drag.widget].floating
               /\ ~last.pre.panels[last.pre.mgr.drag.widget].isTabified
               /\ ThresholdExceeded)

\* C25: a docked drag never undocks a panel that is a child of a Tab node,
\* however far the pointer has moved
C25_TabChildStays ==
    (DockedDragMoved /\ IsTabChild(last.pre.root, last.pre.mgr.drag.widget))
    => /\ InTree(World, last.pre.mgr.drag.widget)
       /\ ~panels[last.pre.mgr.drag.widget].floating

\* an updateDrag beyond the threshold during the docked drag of a child of a
\* Tab node
C25_TabChildPulledOut ==
    /\ DockedDragMoved
    /\ IsTabChild(last.pre.root, last.pre.mgr.drag.widget)
    /\ ThresholdExceeded
    /\ PulledOut(last.pre.mgr.drag.widget)

\* ------------------------------------------------------------------------
\* C26
\* ------------------------------------------------------------------------
\* the last call was handleEvent with a MouseUp event, which it handled
HandledMouseUp ==
    /\ last.op = "MouseUp"
    /\ handleEvent(last.pre, "MouseUp", last.pos, last.id).handled

\* a handled MouseUp ends the floating drag, and the docked drag when no
\* floating drag was active
C26_MouseUpEndsOne ==
    HandledMouseUp
    => /\ mgr.draggedFloatingWindow = NoWindow
       /\ last.pre.mgr.draggedFloatingWindow = NoWindow => ~mgr.drag.active

\* C26: after handleEvent has handled a MouseUp event neither a docked drag
\* nor a floating drag is active
C26_MouseUpIdle ==
    HandledMouseUp => ~mgr.drag.active /\ mgr.draggedFloatingWindow = NoWindow

\* ------------------------------------------------------------------------
\* C27
\* ------------------------------------------------------------------------
\* the last call ended or cancelled a floating drag
DragOver == last.op \in {"cancelFloatingDrag", "endFloatingDrag"}

\* after cancelFloatingDrag and after endFloatingDrag no candidate is
\* highlighted, the overlay has no zones and is hidden, and no floating drag
\* is active
C27_HoverDiscarded ==
    DragOver
    => /\ mgr.highlightedCandidateIndex = -1
       /\ mgr.overlayZones = <<>>
       /\ ~mgr.overlayVisible
       /\ mgr.draggedFloatingWindow = NoWindow

\* C27: after cancelFloatingDrag and after every endFloatingDrag the stored
\* drop-candidate set is empty, no candidate is highlighted and the overlay
\* has no zones
C27_CandidatesDiscarded ==
    DragOver
    => /\ mgr.dropCandidates = <<>>
       /\ mgr.highlightedCandidateIndex = -1
       /\ mgr.overlayZones = <<>>


\* ------------------------------------------------------------------------
\* C28
\* ------------------------------------------------------------------------
\* updateFloatingDrag or endFloatingDrag was called while a floating drag was
\* active whose window is no window of the WindowManager any more
WindowGone ==
    /\ last.op \in {"updateFloatingDrag", "endFloatingDrag"}
    /\ last.pre.mgr.draggedFloatingWindow # NoWindow
    /\ ~hasWindow(last.pre, last.pre.mgr.draggedFloatingWindow)

\* C28: when the floating window under drag has been destroyed, the next
\* updateFloatingDrag or endFloatingDrag ends the drag, docks no panel and
\* leaves the layout tree, the panels and the windows as they were
C28_WindowGone ==
    WindowGone
    => /\ mgr.draggedFloatingWindow = NoWindow
       /\ ~mgr.overlayVisible
       /\ root = last.pre.root
       /\ panels = last.pre.panels
       /\ windows = last.pre.windows

\* a release over a layout with a docked panel, after closeWidget destroyed
\* the dragged window: the closed panel stays out of the layout
C28_ReleasedWithoutWindow ==
    /\ WindowGone
    /\ last.op = "endFloatingDrag"
    /\ root # Null
    /\ \E p \in Panels : panels[p].hostType = "None" /\ ~InTree(World, p)
    /\ mgr.draggedFloatingWindow = NoWindow

\* ------------------------------------------------------------------------
\* C29
\* ------------------------------------------------------------------------
\* the node endFloatingDrag rewrites for candidate c of `tree`: the Tab node
\* that holds the target, otherwise the target, the root for a root candidate
Rewritten(tree, c) ==
    IF c.target = NoHandle THEN <<>>
    ELSE IF /\ c.zone \in {"Tab", "Center"}
            /\ FindParentTabHandle(tree, c.target) # NoHandle
    THEN FindParentTabHandle(tree, c.target)
    ELSE c.target

\* that node is a node of `tree`, and the target of c is a Widget or Tab node
\* found in `tree`
TargetInTree(tree, c) ==
    /\ NodeAt(tree, Rewritten(tree, c)) # Null
    /\ c.target # NoHandle
       => /\ FindNodeHandle(tree, c.target) = c.target
          /\ NodeAt(tree, c.target).type \in {"Widget", "Tab"}

PickedInTree(H, picked) ==
    (Incoming # NoWidget /\ picked # 0 /\ H.root # Null)
    => TargetInTree(H.root, H.mgr.dropCandidates[picked])

\* the layout and the candidates H of a release owe nothing to an earlier
\* frame: the tree is the one update() lays out at the release, and the
\* candidates are the same whatever candidates were stored before
Recomputed(H) ==
    /\ H.root = update(last.pre, mainContainerBounds).root
    /\ H.mgr.dropCandidates =
           updateFloatingDrag([last.pre EXCEPT !.mgr.dropCandidates = <<>>],
                              last.pos).mgr.dropCandidates

ReleasedInTree(H) ==
    Recomputed(H) /\ PickedInTree(H, releaseCandidate(H, last.pos))

NestedTarget(tree, c) ==
    c.target \notin {NoHandle, <<>>} /\ NodeAt(tree, Rewritten(tree, c)) # Null

NestedPicked(H, picked) ==
    /\ picked # 0
    /\ NestedTarget(H.root, H.mgr.dropCandidates[picked])
    /\ H.root # last.pre.root

WrittenBack(node) ==
    /\ node.ratio = FDiv(FirstExtent(node), Extent(node))
    /\ node.splitSizing = "FixedFirst" => node.fixedSize = FirstExtent(node)
    /\ node.splitSizing = "FixedSecond" => node.fixedSize = SecondExtent(node)

\* C30: after update(), every Split node whose extent along its axis is
\* positive has ratio == firstSize / total, and fixedSize == firstSize in
\* FixedFirst mode, fixedSize == secondSize in FixedSecond mode
C30_WrittenBack ==
    last.op = "update"
    => \A node \in Splits(root) : FGt(Extent(node), FZero) => WrittenBack(node)

\* an update() of a fixed-mode Split with positive extent that laid out
\* another size than the one asked for and stored it, with the ratio
C30_FixedSizeReplaced ==
    /\ last.op = "update"
    /\ root # Null /\ last.pre.root # Null
    /\ root.type = "Split" /\ last.pre.root.type = "Split"
    /\ root.splitSizing \in {"FixedFirst", "FixedSecond"}
    /\ FGt(Extent(root), FZero)
    /\ root.fixedSize # last.pre.root.fixedSize
    /\ root.ratio # last.pre.root.ratio
    /\ WrittenBack(root)
\* ------------------------------------------------------------------------
\* C31
\* ------------------------------------------------------------------------
SplitterDragged == last.op = "splitterUpdateDrag"

\* the place of the Split under drag in the tree the call found
DraggedHandle == pointee(last.pre.root, last.pre.splitter.activeNode)

\* `after` is `before` but for the ratio and fixedSize of the node at handle
OnlySizingAt(before, after, handle) ==
    /\ NodeAt(after, handle) # Null
    /\ after = AssignAt(before, handle,
                        [NodeAt(before, handle) EXCEPT
                            !.ratio = NodeAt(after, handle).ratio,
                            !.fixedSize = NodeAt(after, handle).fixedSize])

\* C31: DockSplitter::updateDrag changes at most the ratio and fixedSize of
\* the Split node under drag: every node's bounds, every other field of
\* every node, the tree structure, the panels and the splitter list are as
\* before; the bounds follow only in the next update()
C31_OnlySizing ==
    SplitterDragged
    => /\ splitter.splitters = last.pre.splitter.splitters
       /\ panels = last.pre.panels
       /\ \/ root = last.pre.root
          \/ /\ isDragging(last.pre.splitter)
             /\ DraggedHandle # NoHandle
             /\ OnlySizingAt(last.pre.root, root, DraggedHandle)

\* an updateDrag gave the Split under drag another ratio, and the first
\* child's extent is still the one of the old ratio until update() runs
C31_SeamNotYetMoved ==
    /\ SplitterDragged
    /\ DraggedHandle # NoHandle
    /\ NodeAt(root, DraggedHandle).ratio # NodeAt(last.pre.root, DraggedHandle).ratio
    /\ FirstExtent(NodeAt(root, DraggedHandle))
           = FirstExtent(NodeAt(last.pre.root, DraggedHandle))
    /\ FirstExtent(NodeAt(update(World, root.bounds).root, DraggedHandle))
           # FirstExtent(NodeAt(root, DraggedHandle))

\* ------------------------------------------------------------------------
\* C32
\* ------------------------------------------------------------------------
\* the first-side size updateDrag gave the Split under drag, read back from
\* what it stored
DraggedFirst(node) ==
    CASE node.splitSizing = "FixedFirst" -> node.fixedSize
      [] node.splitSizing = "FixedSecond" -> FSub(dragAvailable(splitter), node.fixedSize)
      [] OTHER -> FMul(dragAvailable(splitter), node.ratio)

UnderDrag == NodeAt(root, pointee(root, splitter.activeNode))

\* C32: after startDrag and updateDrag on a Split, the first-side size the
\* drag computed is, to the pixel, the first child's extent that the next
\* update() with the same container lays out
C32_SameClamp ==
    DraggedOnce => Near(DraggedFirst(UnderDrag), FirstExtent(AfterRelease))

\* what does hold: update() moves the seam by no more than the splitter's
\* thickness (and rounding)
C32_WithinThickness ==
    DraggedOnce
    => FLe(FAbs(FSub(DraggedFirst(UnderDrag), FirstExtent(AfterRelease))),
           FAdd(SPLITTER_THICKNESS, FQ(1, 100)))

\* ------------------------------------------------------------------------
\* C33
\* ------------------------------------------------------------------------
\* refreshLayoutState has just run: the tree is updated and the splitters
\* are collected from it
Refreshed == last.op = "refreshLayoutState"

SplitterNodes == {splitter.splitters[i].node : i \in 1..Len(splitter.splitters)}

\* the Split nodes with nothing but Split nodes above them
RECURSIVE OpenSplits(_)
OpenSplits(node) ==
    IF node = Null THEN {}
    ELSE IF node.type = "Split"
    THEN {node} \cup OpenSplits(node.first) \cup OpenSplits(node.second)
    ELSE {}

\* C33: after updateSplitters on an updated tree the splitter list holds
\* exactly one splitter for every Split node of the tree, also for one below
\* a Tab node, and none for any other node
C33_OnePerSplit ==
    Refreshed
    => /\ SplitterNodes = {node.addr : node \in Splits(root)}
       /\ Len(splitter.splitters) = Cardinality(Splits(root))

\* what does hold: one splitter for every Split node that has only Split
\* nodes above it
C33_OnePerOpenSplit ==
    Refreshed
    => /\ SplitterNodes = {node.addr : node \in OpenSplits(root)}
       /\ Len(splitter.splitters) = Cardinality(OpenSplits(root))

\* ------------------------------------------------------------------------
\* C34
\* ------------------------------------------------------------------------
\* the splitter list is the one of the current tree
Collected == steps = 0 \/ last.op = "updateSplitters"

Hits(p) == {i \in 1..Len(splitter.splitters) : contains(expanded(splitter.splitters[i]), p)}

\* the Split of splitter i lies below the Split of splitter j
Below(i, j) ==
    /\ Len(pointee(root, splitter.splitters[j].node))
           < Len(pointee(root, splitter.splitters[i].node))
    /\ SubSeq(pointee(root, splitter.splitters[i].node), 1,
              Len(pointee(root, splitter.splitters[j].node)))
           = pointee(root, splitter.splitters[j].node)

\* splitterAtPoint gives the first splitter of the list that is hit, none
\* when none is hit
FirstHit(p) ==
    IF Hits(p) = {} THEN splitterAtPoint(splitter, p) = 0
    ELSE /\ splitterAtPoint(splitter, p) \in Hits(p)
         /\ \A i \in Hits(p) : splitterAtPoint(splitter, p) <= i

\* C34: on a freshly collected list, splitterAtPoint returns the first
\* splitter in collection order whose expanded rectangle contains the point
\* and null when none does; collection puts the splitter of every descendant
\* Split before its ancestor's, so of the splitters hit no one lies below
\* the one returned
C34_InnermostFirst ==
    Collected
    => /\ \A p \in SplitterPoints : FirstHit(p)
       /\ \A i, j \in 1..Len(splitter.splitters) : Below(i, j) => i < j
       /\ \A p \in SplitterPoints :
              \A i \in Hits(p) : ~Below(i, splitterAtPoint(splitter, p))

\* startDrag at a point in the lanes of an outer and an inner splitter took
\* the inner one
C34_InnerGrabbed ==
    /\ last.op = "splitterStartDrag"
    /\ steps = 1
    /\ \E i, j \in Hits(last.pos) :
           /\ Below(i, j)
           /\ splitter.activeNode = splitter.splitters[i].node

\* ------------------------------------------------------------------------
\* C35
\* ------------------------------------------------------------------------
\* the last call released a floating window with the suppress flag set
SuppressedRelease ==
    /\ Released
    /\ Incoming # NoWidget
    /\ last.pre.mgr.suppressDockOnNextDrop

\* the release put the panel into the tree and destroyed its window
DockedBack ==
    /\ Incoming \in Range(LeafPanels(root))
    /\ ~hasWindow(World, last.pre.mgr.draggedFloatingWindow)
    /\ ~panels[Incoming].floating

\* the last call started a floating drag
DragStarted ==
    /\ last.op \in {"startFloatingDrag", "startUndockDrag", "updateDrag"}
    /\ last.pre.mgr.draggedFloatingWindow = NoWindow
    /\ mgr.draggedFloatingWindow # NoWindow

\* the flag is set only during a floating drag, and is clear when one has
\* just started and when one has ended
FlagWithinDrag ==
    /\ mgr.suppressDockOnNextDrop => mgr.draggedFloatingWindow # NoWindow
    /\ DragStarted => ~mgr.suppressDockOnNextDrop
    /\ DragOver => ~mgr.suppressDockOnNextDrop
    /\ (last.op = "suppressDockForActiveFloatingDrag"
        /\ last.pre.mgr.draggedFloatingWindow = NoWindow) => World = last.pre

SuppressedDocks(picked) ==
    /\ DockedBack <=> picked # 0
    /\ picked = 0 => StillFloating /\ LeafPanels(root) = LeafPanels(last.pre.root)

\* C35 up to normalization: with the suppress flag set a release docks the
\* panel exactly when a drop candidate is active at the release point, and
\* otherwise leaves the panel floating and the tree as update() normalizes
\* it; the flag is set only during a floating drag and is clear when a drag
\* starts and when it ends
C35_Suppressed ==
    /\ FlagWithinDrag
    /\ SuppressedRelease
       => /\ SuppressedDocks(Picked)
          /\ ~DockedBack => Structure(root) = Structure(normalizeNode(last.pre.root))

\* C35: with the suppress flag set a release docks the panel exactly when a
\* drop candidate is active at the release point, and otherwise leaves the
\* panel floating and the tree unchanged; the flag is set only during a
\* floating drag and is clear when a drag starts and when it ends
C35_SuppressedKeepsTree ==
    /\ FlagWithinDrag
    /\ SuppressedRelease
       => /\ SuppressedDocks(Picked)
          /\ ~DockedBack => Structure(root) = Structure(last.pre.root)

\* ------------------------------------------------------------------------
\* C36
\* ------------------------------------------------------------------------
\* the last call moved or released a floating window that is still there
StillDragged ==
    /\ last.op \in {"updateFloatingDrag", "endFloatingDrag"}
    /\ hasWindow(last.pre, last.pre.mgr.draggedFloatingWindow)
    /\ hasWindow(World, last.pre.mgr.draggedFloatingWindow)

DraggedBounds == frameOf(World, last.pre.mgr.draggedFloatingWindow).bounds

\* no larger than the area and no side across its border
Inside(b, area) ==
    /\ FLe(b.width, area.width)
    /\ FLe(b.height, area.height)
    /\ FGe(b.x, area.x)
    /\ FGe(b.y, area.y)
    /\ FLe(FAdd(b.x, b.width), FAdd(area.x, area.width))
    /\ FLe(FAdd(b.y, b.height), FAdd(area.y, area.height))

\* C36: with a work area of positive width and height, after every
\* updateFloatingDrag and after every endFloatingDrag that leaves the panel
\* floating the dragged window is no larger than the work area and lies
\* inside it
C36_InsideWorkArea ==
    (StillDragged /\ FGt(workArea.width, FZero) /\ FGt(workArea.height, FZero))
    => Inside(DraggedBounds, workArea)

\* a release left floating a window that was larger than the work area:
\* it has the work area's size now
C36_OversizedCapped ==
    /\ StillDragged
    /\ last.op = "endFloatingDrag"
    /\ FGt(frameOf(last.pre, last.pre.mgr.draggedFloatingWindow).bounds.width,
           workArea.width)
    /\ DraggedBounds.width = workArea.width
    /\ DraggedBounds.height = workArea.height

\* ------------------------------------------------------------------------
\* C37
\* ------------------------------------------------------------------------
\* the last call was one that takes the root out of the layout, directly or
\* through closeWidget and updateDrag
TookRoot ==
    last.op \in {"closeDockedWidget", "closeWidget", "startUndockDrag", "updateDrag",
                 "endFloatingDrag"}

\* the panel that call may remove from the tree
Leaving ==
    IF last.op = "updateDrag" THEN last.pre.mgr.drag.widget
    ELSE IF last.op = "endFloatingDrag" THEN NoWidget
    ELSE last.widget

PanelsOf(tree) == Range(LeafPanels(tree))

\* C37: closeDockedWidget, startUndockDrag and endFloatingDrag (and
\* closeWidget and updateDrag, which call them) leave the layout with a
\* root on every path: every panel of the tree but the one the call removes
\* is still in the tree, and the tree is the same when the panel to remove
\* is not in it
C37_RootPutBack ==
    TookRoot
    => /\ PanelsOf(last.pre.root) \ {Leaving} \subseteq PanelsOf(root)
       /\ (last.pre.root # Null /\ PanelsOf(last.pre.root) # {Leaving}) => root # Null
       /\ (last.op # "endFloatingDrag" /\ Leaving \notin PanelsOf(last.pre.root))
          => root = last.pre.root

\* startUndockDrag for a panel that is not in the tree, which is not empty:
\* the root taken is put back
C37_NotFoundPutBack ==
    /\ last.op = "startUndockDrag"
    /\ last.pre.root # Null
    /\ ~last.pre.panels[last.widget].floating
    /\ last.widget \notin PanelsOf(last.pre.root)
    /\ root = last.pre.root

\* ------------------------------------------------------------------------
\* C38
\* ------------------------------------------------------------------------
\* the panels hosted somewhere: the tree's leaves and the floating windows'
\* contents
Hosted(W) ==
    (PanelsOf(W.root) \cup {W.windows[i].content : i \in 1..Len(W.windows)}) \ {NoWidget}

Closing == last.op \in {"closeWidget", "closeDockedWidget"}

\* what the close call removes: closeDockedWidget looks in the tree only
ClosedBy ==
    IF last.op = "closeWidget" \/ last.widget \in PanelsOf(last.pre.root)
    THEN {last.widget} ELSE {}

\* C38: no call but closeWidget (with closeDockedWidget, its docked half)
\* changes the set of hosted panels, and those remove just their panel
\* (closeDockedWidget only when the tree holds it); no
\* panel is hosted twice; a release that docks adds the incoming panel to the
\* tree's leaves and changes them in no other way, every other release
\* leaves them as they were
C38_HostedKept ==
    /\ HostedOnce(LeafPanels(root), windows)
    /\ (last.op # "none" /\ ~Closing) => Hosted(World) = Hosted(last.pre)
    /\ Closing => Hosted(World) = Hosted(last.pre) \ ClosedBy
    /\ last.op = "endFloatingDrag"
       => IF Released /\ DockedBack
          THEN /\ PanelsOf(root) = PanelsOf(last.pre.root) \cup {Incoming}
               /\ Len(LeafPanels(root)) = Len(LeafPanels(last.pre.root)) + 1
          ELSE LeafPanels(root) = LeafPanels(last.pre.root)

\* a panel pulled out of a tree of three or more panels has been docked on
\* a header hint of another panel
C38_TabDockKeepsOthers ==
    /\ DockedOn({"Tab", "Center"})
    /\ DockedBack
    /\ Len(LeafPanels(last.pre.root)) >= 2
    /\ Hosted(World) = Hosted(last.pre)

\* ------------------------------------------------------------------------
\* C39
\* ------------------------------------------------------------------------
\* the candidate the release loop holds is the one the hover loop
\* highlighted in H: none and none, or the same entry of dropCandidates_
SameCandidate(H, picked) ==
    IF picked = 0
    THEN H.mgr.highlightedCandidateIndex = -1
    ELSE /\ H.mgr.highlightedCandidateIndex = H.mgr.dropCandidates[picked].overlayIndex
         /\ \A i \in 1..Len(H.mgr.dropCandidates) :
                H.mgr.dropCandidates[i].overlayIndex = H.mgr.highlightedCandidateIndex
                => /\ H.mgr.dropCandidates[i].zone = H.mgr.dropCandidates[picked].zone
                   /\ H.mgr.dropCandidates[i].target = H.mgr.dropCandidates[picked].target
                   /\ H.mgr.dropCandidates[i].depth = H.mgr.dropCandidates[picked].depth

\* the candidates whose rectangle holds the release point
Holding(H) ==
    {i \in 1..Len(H.mgr.dropCandidates) : contains(H.mgr.dropCandidates[i].bounds, last.pos)}

\* C39: at every release of a floating window that exists, the candidate
\* endFloatingDrag selects is the candidate its updateFloatingDrag at the
\* release point highlighted, with the same zone, target and depth, and it
\* selects none when none was highlighted
C39_LoopsAgree == Released => SameCandidate(Hovering, Picked)

SeveralHeld(H, picked) ==
    /\ picked # 0
    /\ Cardinality(Holding(H)) >= 2
    /\ H.mgr.highlightedCandidateIndex = H.mgr.dropCandidates[picked].overlayIndex

\* a release where two or more candidates hold the pointer and one of them
\* was highlighted and selected
C39_ChosenAmongSeveral == Released /\ SeveralHeld(Hovering, Picked)

\* ------------------------------------------------------------------------
\* C40
\* ------------------------------------------------------------------------
\* every child of every Tab node of the tree is a Widget leaf
FlatTabs(tree) ==
    \A t \in Tabs(tree) :
        \A i \in 1..Len(t.children) : t.children[i].type = "Widget"

\* C40: a call made on a tree whose Tab nodes hold Widget leaves only leaves
\* such a tree, so from a start tree of that kind no Split node (and no Tab
\* node) ever appears below a Tab node; the edge candidate a release picks
\* on such a tree never has a panel inside a Tab node as its target
\* the candidate picked in H, if an edge candidate, has no Tab node as the
\* parent of its target
EdgeOutsideTabs(H, picked) ==
    (picked # 0 /\ isEdgeZone(H.mgr.dropCandidates[picked].zone))
    => FindParentTabHandle(H.root, H.mgr.dropCandidates[picked].target) = NoHandle

C40_TabsStayFlat ==
    (last.op # "none" /\ FlatTabs(last.pre.root))
    => /\ FlatTabs(root)
       /\ Released => EdgeOutsideTabs(Hovering, Picked)

TabHeld(tree) == Tabs(tree) # {} /\ FlatTabs(tree)

\* a panel has been docked on a tree that held a Tab node of Widget leaves,
\* on a header hint or on an edge, and the tree still holds a Tab node
C40_DockedBesideTab ==
    /\ Released
    /\ DockedBack
    /\ TabHeld(last.pre.root)
    /\ TabHeld(root)
====
